---- MODULE Spec2Model ----
(***************************************************************************)
(* A model of cryptography's x509/extensions.py: the Extensions container, *)
(* the GeneralNames typed filter and the validating constructors of the    *)
(* extension values.                                                       *)
(*                                                                         *)
(* The library is a set of value classes with no shared state, so a state  *)
(* of the model is one call and what it left behind:                       *)
(*   made     the constructor call of the run, with its arguments,         *)
(*   obj      the value that call produced (None when the constructor      *)
(*            raised, or before the call),                                 *)
(*   call     the last call made: the constructor, or a method or property *)
(*            of obj with its arguments,                                   *)
(*   outcome  how that call ended: a returned value or a raised exception. *)
(***************************************************************************)
EXTENDS Integers, Sequences, FiniteSets, TLC

VARIABLES made, obj, call, outcome

vars == <<made, obj, call, outcome>>

(***************************************************************************)
(* Bounds of the model.                                                    *)
(***************************************************************************)
\* longest list of Extension wrappers given to Extensions()
MaxExts == 2

\* longest list of names given to GeneralNames()
MaxNames == 3

\* path_length is drawn from -MaxPathLength..MaxPathLength
MaxPathLength == 2

\* longest list given as full_name or crl_issuer of a DistributionPoint
MaxPointNames == 1

MaxSubtrees == 2

MaxSkipCerts == 2
MaxFeatures == 2

\* the longest list given to a sequence-valued extension
MaxItems == 2

(***************************************************************************)
(* Python values.  Every value is a record carrying its class in the field *)
(* type; instances of the library's classes carry their attributes under   *)
(* the attribute's name.                                                   *)
(***************************************************************************)
None == [type |-> "NoneType"]

PyBool(b) == [type |-> "bool", val |-> b]

PyInt(n) == [type |-> "int", val |-> n]

PyStr(s) == [type |-> "str", val |-> s]

PyList(items) == [type |-> "list", items |-> items]

FrozenSet(items) == [type |-> "frozenset", items |-> items]

\* x509/oid.py (external): an identifier, compared by its dotted string
ObjectIdentifier(dotted_string) ==
    [type |-> "ObjectIdentifier", dotted_string |-> dotted_string]

\* the classes of general_name.py (external) that derive from GeneralName
GeneralNameClasses ==
    {"DNSName", "RFC822Name", "UniformResourceIdentifier", "DirectoryName",
     "RegisteredID", "IPAddress", "OtherName"}

\* the class and its base classes: bool derives from int, the general names
\* from GeneralName
Mro(t) ==
    {t} \cup (IF t = "bool" THEN {"int"} ELSE {})
        \cup (IF t \in GeneralNameClasses THEN {"GeneralName"} ELSE {})

isinstance(x, class) == class \in Mro(x.type)

\* the truth value Python's if, not, and, or give a value: None, False, 0 and
\* the empty str, list and frozenset are false, every other value is true
Truthy(x) ==
    CASE x.type = "NoneType" -> FALSE
      [] x.type = "bool" -> x.val
      [] x.type = "int" -> x.val # 0
      [] x.type = "str" -> x.val # ""
      [] x.type = "list" -> Len(x.items) > 0
      [] x.type = "frozenset" -> x.items # {}
      [] OTHER -> TRUE

\* the number an int is compared as: True is 1 and False is 0
IntValue(x) == IF x.type = "bool" THEN (IF x.val THEN 1 ELSE 0) ELSE x.val

(***************************************************************************)
(* Call outcomes.                                                          *)
(***************************************************************************)
NoCall == [op |-> "none"]

Return(v) == [kind |-> "return", value |-> v]

\* an element of a list is returned by reference: at is its position in the list
ReturnItem(v, i) == [kind |-> "return", value |-> v, at |-> i]

Raise(exc) == [kind |-> "raise", exc |-> exc]

\* sequences over S of length 0..n
SeqsUpTo(S, n) == UNION {[1..k -> S] : k \in 0..n}

(***************************************************************************)
(* Object identifiers: two registered ones (ExtensionOID) and one the      *)
(* catalogue does not know.                                                *)
(***************************************************************************)
OID_BASIC_CONSTRAINTS == ObjectIdentifier("2.5.29.19")

OID_KEY_USAGE == ObjectIdentifier("2.5.29.15")

OID_UNKNOWN == ObjectIdentifier("1.2.3.4")

ObjectIdentifiers == {OID_BASIC_CONSTRAINTS, OID_KEY_USAGE, OID_UNKNOWN}

\* the classes get_extension_for_class is asked for
ExtensionClasses == {"BasicConstraints", "KeyUsage", "UnrecognizedExtension"}

\* extclass.oid, the class attribute: an identifier for a catalogue class, the
\* property object itself for UnrecognizedExtension, whose oid is per instance
ClassOid(extclass) ==
    CASE extclass = "BasicConstraints" -> OID_BASIC_CONSTRAINTS
      [] extclass = "KeyUsage" -> OID_KEY_USAGE
      [] extclass = "UnrecognizedExtension" -> [type |-> "property"]

\* faulty variant: the exception does not keep the oid it was raised with
ExtensionNotFound_OidDropped(oid) ==
    [kind |-> "raise", exc |-> "ExtensionNotFound", oid |-> None]

\* class ExtensionNotFound: the exception carries the oid it was raised with
ExtensionNotFound(oid) == [kind |-> "raise", exc |-> "ExtensionNotFound", oid |-> oid]

(***************************************************************************)
(* Extension: the wrapper (oid, critical, value).  __init__ checks the     *)
(* types of oid and critical and nothing else; oid and value are not       *)
(* compared.                                                               *)
(***************************************************************************)
\* faulty variant: the wrapper takes its identifier from the value
Extension_init_OidOfValue(oid, critical, value) ==
    IF ~isinstance(oid, "ObjectIdentifier")
    THEN Raise("TypeError")
    ELSE IF ~isinstance(critical, "bool")
    THEN Raise("TypeError")
    ELSE Return([type |-> "Extension", _oid |-> value.oid,
                 _critical |-> critical, _value |-> value])

Extension_init(oid, critical, value) ==
    IF ~isinstance(oid, "ObjectIdentifier")
    THEN Raise("TypeError")
    ELSE IF ~isinstance(critical, "bool")
    THEN Raise("TypeError")
    ELSE Return([type |-> "Extension", _oid |-> oid,
                 _critical |-> critical, _value |-> value])

\* the extension values a wrapper holds in this model, by class and own oid
WrappedValues ==
    {[type |-> c, oid |-> ClassOid(c)] : c \in {"BasicConstraints", "KeyUsage"}}
        \cup {[type |-> "UnrecognizedExtension", oid |-> OID_UNKNOWN]}

\* every wrapper Extension() builds from the identifiers, flags and values above,
\* a str given as oid and an int given as critical included (both are refused)
ExtensionObjects ==
    {r.value : r \in {x \in {Extension_init(o, c, v) :
                                 o \in ObjectIdentifiers \cup {PyStr("2.5.29.19")},
                                 c \in {PyBool(TRUE), PyBool(FALSE), PyInt(1)},
                                 v \in WrappedValues} : x.kind = "return"}}

(***************************************************************************)
(* Extensions                                                              *)
(***************************************************************************)
\* faulty variant: two wrappers of one identifier are refused
Extensions_init_RejectsDuplicates(extensions) ==
    IF \E i, j \in 1..Len(extensions) : i < j /\ extensions[i]._oid = extensions[j]._oid
    THEN Raise("DuplicateExtension")
    ELSE Return([type |-> "Extensions", _extensions |-> extensions])

\* __init__: self._extensions = list(extensions)
Extensions_init(extensions) ==
    Return([type |-> "Extensions", _extensions |-> extensions])

\* faulty variant: the scan does not stop at the first match and returns the last one
RECURSIVE ScanForOid_LastMatch(_, _, _)
ScanForOid_LastMatch(exts, oid, i) ==
    IF i > Len(exts)
    THEN ExtensionNotFound(oid)
    ELSE LET rest == ScanForOid_LastMatch(exts, oid, i + 1)
         IN  IF rest.kind = "return" THEN rest
             ELSE IF exts[i]._oid = oid THEN ReturnItem(exts[i], i)
             ELSE rest

\* for ext in self: if ext.oid == oid: return ext -- from position i on
RECURSIVE ScanForOid(_, _, _)
ScanForOid(exts, oid, i) ==
    IF i > Len(exts)
    THEN ExtensionNotFound(oid)
    ELSE IF exts[i]._oid = oid
    THEN ReturnItem(exts[i], i)
    ELSE ScanForOid(exts, oid, i + 1)

get_extension_for_oid(self, oid) == ScanForOid(self._extensions, oid, 1)

\* faulty variant: the scan matches the wrapper's oid against the class's oid
RECURSIVE ScanForClass_ByOid(_, _, _)
ScanForClass_ByOid(exts, extclass, i) ==
    IF i > Len(exts)
    THEN ExtensionNotFound(ClassOid(extclass))
    ELSE IF exts[i]._oid = ClassOid(extclass)
    THEN ReturnItem(exts[i], i)
    ELSE ScanForClass_ByOid(exts, extclass, i + 1)

\* faulty variant: the scan by class does not stop at the first match
RECURSIVE ScanForClass_LastMatch(_, _, _)
ScanForClass_LastMatch(exts, extclass, i) ==
    IF i > Len(exts)
    THEN ExtensionNotFound(ClassOid(extclass))
    ELSE LET rest == ScanForClass_LastMatch(exts, extclass, i + 1)
         IN  IF rest.kind = "return" THEN rest
             ELSE IF isinstance(exts[i]._value, extclass) THEN ReturnItem(exts[i], i)
             ELSE rest

\* for ext in self: if isinstance(ext.value, extclass): return ext
RECURSIVE ScanForClass(_, _, _)
ScanForClass(exts, extclass, i) ==
    IF i > Len(exts)
    THEN ExtensionNotFound(ClassOid(extclass))
    ELSE IF isinstance(exts[i]._value, extclass)
    THEN ReturnItem(exts[i], i)
    ELSE ScanForClass(exts, extclass, i + 1)

\* faulty variant: UnrecognizedExtension is looked up like any other class
get_extension_for_class_NoGuard(self, extclass) ==
    ScanForClass(self._extensions, extclass, 1)

get_extension_for_class(self, extclass) ==
    IF extclass = "UnrecognizedExtension"
    THEN Raise("TypeError")
    ELSE ScanForClass(self._extensions, extclass, 1)

(***************************************************************************)
(* General names (general_name.py, external).  Every variant keeps its     *)
(* payload in _value and exposes it as the property value; OtherName keeps *)
(* a type_id beside it.  The same payload appears under several variants,  *)
(* and the same bytes under two type_ids.                                  *)
(***************************************************************************)
GeneralName(class, value) == [type |-> class, _value |-> value]

OtherName(type_id, value) ==
    [type |-> "OtherName", _type_id |-> type_id, _value |-> value]

\* the objects given to GeneralNames(): general names, and a str that is none
NameObjects ==
    {GeneralName("DNSName", PyStr("a.example")),
     GeneralName("DNSName", PyStr("b.example")),
     GeneralName("RFC822Name", PyStr("a.example")),
     GeneralName("IPAddress", [type |-> "IPv4Network", val |-> "10.0.0.0/8"]),
     OtherName(OID_UNKNOWN, [type |-> "bytes", val |-> "0500"]),
     OtherName(OID_KEY_USAGE, [type |-> "bytes", val |-> "0500"]),
     PyStr("a.example")}

(***************************************************************************)
(* GeneralNames                                                            *)
(***************************************************************************)
\* __init__: the list is copied and every item must be a GeneralName
GeneralNames_init(general_names) ==
    IF ~(\A k \in 1..Len(general_names) :
            isinstance(general_names[k], "GeneralName"))
    THEN Raise("TypeError")
    ELSE Return([type |-> "GeneralNames", _general_names |-> general_names])

\* faulty variant: the generator yields the matching items last to first
RECURSIVE InstancesOf_Reversed(_, _, _)
InstancesOf_Reversed(names, class, k) ==
    IF k > Len(names)
    THEN <<>>
    ELSE IF isinstance(names[k], class)
    THEN InstancesOf_Reversed(names, class, k + 1) \o <<names[k]>>
    ELSE InstancesOf_Reversed(names, class, k + 1)

\* objs = (i for i in self if isinstance(i, type)) -- from position k on
RECURSIVE InstancesOf(_, _, _)
InstancesOf(names, class, k) ==
    IF k > Len(names)
    THEN <<>>
    ELSE IF isinstance(names[k], class)
    THEN <<names[k]>> \o InstancesOf(names, class, k + 1)
    ELSE InstancesOf(names, class, k + 1)

\* faulty variant: OtherName is unwrapped like the other variants
get_values_for_type_AlwaysValue(self, class) ==
    LET objs == InstancesOf(self._general_names, class, 1)
    IN  Return([k \in 1..Len(objs) |-> objs[k]._value])

\* if type != OtherName: return [i.value for i in objs]; return list(objs)
get_values_for_type(self, class) ==
    LET objs == InstancesOf(self._general_names, class, 1)
    IN  IF class # "OtherName"
        THEN Return([k \in 1..Len(objs) |-> objs[k]._value])
        ELSE Return(objs)

(***************************************************************************)
(* KeyUsage                                                                *)
(***************************************************************************)
\* faulty variant: the constructor forgets decipher_only in its check
KeyUsage_init_EncipherOnlyChecked(digital_signature, content_commitment, key_encipherment, data_encipherment, key_agreement, key_cert_sign, crl_sign, encipher_only, decipher_only) ==
    IF ~Truthy(key_agreement) /\ Truthy(encipher_only)
    THEN Raise("ValueError")
    ELSE Return([type |-> "KeyUsage",
                 _digital_signature |-> digital_signature,
                 _content_commitment |-> content_commitment,
                 _key_encipherment |-> key_encipherment,
                 _data_encipherment |-> data_encipherment,
                 _key_agreement |-> key_agreement,
                 _key_cert_sign |-> key_cert_sign,
                 _crl_sign |-> crl_sign,
                 _encipher_only |-> encipher_only,
                 _decipher_only |-> decipher_only])

\* __init__: one check, then the nine flags are stored as given
KeyUsage_init(digital_signature, content_commitment, key_encipherment, data_encipherment, key_agreement, key_cert_sign, crl_sign, encipher_only, decipher_only) ==
    IF ~Truthy(key_agreement) /\ (Truthy(encipher_only) \/ Truthy(decipher_only))
    THEN Raise("ValueError")
    ELSE Return([type |-> "KeyUsage",
                 _digital_signature |-> digital_signature,
                 _content_commitment |-> content_commitment,
                 _key_encipherment |-> key_encipherment,
                 _data_encipherment |-> data_encipherment,
                 _key_agreement |-> key_agreement,
                 _key_cert_sign |-> key_cert_sign,
                 _crl_sign |-> crl_sign,
                 _encipher_only |-> encipher_only,
                 _decipher_only |-> decipher_only])

KeyUsage_digital_signature(self) == Return(self._digital_signature)

KeyUsage_content_commitment(self) == Return(self._content_commitment)

KeyUsage_key_encipherment(self) == Return(self._key_encipherment)

KeyUsage_data_encipherment(self) == Return(self._data_encipherment)

KeyUsage_key_agreement(self) == Return(self._key_agreement)

KeyUsage_key_cert_sign(self) == Return(self._key_cert_sign)

KeyUsage_crl_sign(self) == Return(self._crl_sign)

\* faulty variant: the property returns the stored flag whatever key_agreement is
KeyUsage_encipher_only_Unguarded(self) == Return(self._encipher_only)

\* property encipher_only: undefined unless key_agreement is true
KeyUsage_encipher_only(self) ==
    IF ~Truthy(KeyUsage_key_agreement(self).value)
    THEN Raise("ValueError")
    ELSE Return(self._encipher_only)

\* property decipher_only: undefined unless key_agreement is true
KeyUsage_decipher_only(self) ==
    IF ~Truthy(KeyUsage_key_agreement(self).value)
    THEN Raise("ValueError")
    ELSE Return(self._decipher_only)

\* the nine properties of a KeyUsage, in the order of the constructor's arguments
KeyUsageProperties ==
    <<"digital_signature", "content_commitment", "key_encipherment",
      "data_encipherment", "key_agreement", "key_cert_sign", "crl_sign",
      "encipher_only", "decipher_only">>

\* self.<name> for a property name
KeyUsage_getattr(self, name) ==
    CASE name = "digital_signature" -> KeyUsage_digital_signature(self)
      [] name = "content_commitment" -> KeyUsage_content_commitment(self)
      [] name = "key_encipherment" -> KeyUsage_key_encipherment(self)
      [] name = "data_encipherment" -> KeyUsage_data_encipherment(self)
      [] name = "key_agreement" -> KeyUsage_key_agreement(self)
      [] name = "key_cert_sign" -> KeyUsage_key_cert_sign(self)
      [] name = "crl_sign" -> KeyUsage_crl_sign(self)
      [] name = "encipher_only" -> KeyUsage_encipher_only(self)
      [] name = "decipher_only" -> KeyUsage_decipher_only(self)

\* the flags given to KeyUsage()
PyBools == {PyBool(TRUE), PyBool(FALSE)}

(***************************************************************************)
(* BasicConstraints                                                        *)
(***************************************************************************)
\* faulty variant: path_length is accepted whatever ca is
BasicConstraints_init_CaIgnored(ca, path_length) ==
    IF ~isinstance(ca, "bool")
    THEN Raise("TypeError")
    ELSE IF path_length # None
            /\ (~isinstance(path_length, "int") \/ IntValue(path_length) < 0)
    THEN Raise("TypeError")
    ELSE Return([type |-> "BasicConstraints", _ca |-> ca,
                 _path_length |-> path_length])

\* __init__: ca is a bool; path_length is None unless ca, and then an int >= 0
BasicConstraints_init(ca, path_length) ==
    IF ~isinstance(ca, "bool")
    THEN Raise("TypeError")
    ELSE IF path_length # None /\ ~Truthy(ca)
    THEN Raise("ValueError")
    ELSE IF path_length # None
            /\ (~isinstance(path_length, "int") \/ IntValue(path_length) < 0)
    THEN Raise("TypeError")
    ELSE Return([type |-> "BasicConstraints", _ca |-> ca,
                 _path_length |-> path_length])

BasicConstraints_ca(self) == Return(self._ca)

BasicConstraints_path_length(self) == Return(self._path_length)

\* the values given as ca: the two bools, and an int and None that are none
CaGiven == PyBools \cup {PyInt(1), None}

\* the values given as path_length: None, ints of both signs, True and a str
PathLengthGiven ==
    {None, PyBool(TRUE), PyStr("1")}
        \cup {PyInt(n) : n \in (0 - MaxPathLength)..MaxPathLength}

(***************************************************************************)
(* ReasonFlags and DistributionPoint                                       *)
(***************************************************************************)
\* a member of the enumeration ReasonFlags
ReasonFlag(name) == [type |-> "ReasonFlags", name |-> name]

ReasonFlags ==
    {ReasonFlag(n) : n \in
        {"unspecified", "key_compromise", "ca_compromise",
         "affiliation_changed", "superseded", "cessation_of_operation",
         "certificate_hold", "privilege_withdrawn", "aa_compromise",
         "remove_from_crl"}}

\* name.py (external): a RelativeDistinguishedName is never empty, hence true
RelativeDistinguishedName(rfc4514) ==
    [type |-> "RelativeDistinguishedName", val |-> rfc4514]

\* all(isinstance(x, class) for x in items)
AllInstances(items, class) == \A k \in 1..Len(items) : isinstance(items[k], class)

\* __init__: the checks in the order of the code; full_name and crl_issuer are
\* copied into lists, relative_name and reasons are stored as given
DistributionPoint_init(full_name, relative_name, reasons, crl_issuer) ==
    IF Truthy(full_name) /\ Truthy(relative_name)
    THEN Raise("ValueError")
    ELSE IF full_name # None /\ ~AllInstances(full_name.items, "GeneralName")
    THEN Raise("TypeError")
    ELSE IF Truthy(relative_name)
            /\ ~isinstance(relative_name, "RelativeDistinguishedName")
    THEN Raise("TypeError")
    ELSE IF crl_issuer # None /\ ~AllInstances(crl_issuer.items, "GeneralName")
    THEN Raise("TypeError")
    ELSE IF Truthy(reasons)
            /\ (\/ ~isinstance(reasons, "frozenset")
                \/ ~(\A x \in reasons.items : isinstance(x, "ReasonFlags")))
    THEN Raise("TypeError")
    ELSE IF Truthy(reasons)
            /\ (\/ ReasonFlag("unspecified") \in reasons.items
                \/ ReasonFlag("remove_from_crl") \in reasons.items)
    THEN Raise("ValueError")
    ELSE IF Truthy(reasons) /\ ~Truthy(crl_issuer)
            /\ ~(Truthy(full_name) \/ Truthy(relative_name))
    THEN Raise("ValueError")
    ELSE Return([type |-> "DistributionPoint",
                 _full_name |-> full_name,
                 _relative_name |-> relative_name,
                 _reasons |-> reasons,
                 _crl_issuer |-> crl_issuer])

\* the items of the lists given as full_name and crl_issuer: two general names
\* and a str that is none
PointNameObjects ==
    {GeneralName("DNSName", PyStr("a.example")),
     GeneralName("UniformResourceIdentifier", PyStr("http://a.example/crl")),
     PyStr("a.example")}

\* the values given as full_name and as crl_issuer: None or a list, [] included
PointNamesGiven ==
    {None} \cup {PyList(l) : l \in SeqsUpTo(PointNameObjects, MaxPointNames)}

\* the values given as relative_name: None, a name, and a str that is none
RelativeNameGiven ==
    {None, RelativeDistinguishedName("CN=crl"), PyStr("CN=crl")}

\* the values given as reasons: None, every frozenset of four of the flags (the
\* two refused ones among them), a list of flags and a frozenset of str
ReasonsGiven ==
    {None, PyList(<<ReasonFlag("key_compromise")>>),
     FrozenSet({PyStr("keyCompromise")})}
        \cup {FrozenSet(S) : S \in SUBSET {ReasonFlag("unspecified"),
                                           ReasonFlag("key_compromise"),
                                           ReasonFlag("ca_compromise"),
                                           ReasonFlag("remove_from_crl")}}

(***************************************************************************)
(* IssuingDistributionPoint                                                *)
(***************************************************************************)
\* faulty variant: only unspecified is looked for in the reasons
HasInvalidReason_UnspecifiedOnly(reasons) ==
    ReasonFlag("unspecified") \in reasons.items

\* ReasonFlags.unspecified in reasons or ReasonFlags.remove_from_crl in reasons
HasInvalidReason(reasons) ==
    \/ ReasonFlag("unspecified") \in reasons.items
    \/ ReasonFlag("remove_from_crl") \in reasons.items

\* faulty variant: up to two of the constraints may be true
TooManyConstraints_OffByOne(crl_constraints) ==
    Cardinality({k \in 1..Len(crl_constraints) : Truthy(crl_constraints[k])}) > 2

\* len([x for x in crl_constraints if x]) > 1
TooManyConstraints(crl_constraints) ==
    Cardinality({k \in 1..Len(crl_constraints) : Truthy(crl_constraints[k])}) > 1

\* faulty variant: a value counts as given when it is not None, empty or not
IsEmptyExtension_NoneOnly(values) ==
    ~(\E k \in 1..Len(values) : values[k] # None /\ values[k] # PyBool(FALSE))

\* not any([...]): none of the values is true
IsEmptyExtension(values) == ~(\E k \in 1..Len(values) : Truthy(values[k]))

\* __init__: the checks in the order of the code.  full_name is copied into a
\* list; neither its items nor relative_name are checked, and the two are not
\* compared
IssuingDistributionPoint_init(full_name, relative_name, only_contains_user_certs, only_contains_ca_certs, only_some_reasons, indirect_crl, only_contains_attribute_certs) ==
    IF Truthy(only_some_reasons)
          /\ (\/ ~isinstance(only_some_reasons, "frozenset")
              \/ ~(\A x \in only_some_reasons.items : isinstance(x, "ReasonFlags")))
    THEN Raise("TypeError")
    ELSE IF Truthy(only_some_reasons) /\ HasInvalidReason(only_some_reasons)
    THEN Raise("ValueError")
    ELSE IF ~(/\ isinstance(only_contains_user_certs, "bool")
              /\ isinstance(only_contains_ca_certs, "bool")
              /\ isinstance(indirect_crl, "bool")
              /\ isinstance(only_contains_attribute_certs, "bool"))
    THEN Raise("TypeError")
    ELSE IF TooManyConstraints(<<only_contains_user_certs, only_contains_ca_certs,
                                 indirect_crl, only_contains_attribute_certs>>)
    THEN Raise("ValueError")
    ELSE IF IsEmptyExtension(<<only_contains_user_certs, only_contains_ca_certs,
                               indirect_crl, only_contains_attribute_certs,
                               full_name, relative_name, only_some_reasons>>)
    THEN Raise("ValueError")
    ELSE Return([type |-> "IssuingDistributionPoint",
                 _only_contains_user_certs |-> only_contains_user_certs,
                 _only_contains_ca_certs |-> only_contains_ca_certs,
                 _indirect_crl |-> indirect_crl,
                 _only_contains_attribute_certs |-> only_contains_attribute_certs,
                 _only_some_reasons |-> only_some_reasons,
                 _full_name |-> full_name,
                 _relative_name |-> relative_name])

\* the values given as one of the four flags: the two bools and an int
ConstraintGiven == PyBools \cup {PyInt(1)}

(***************************************************************************)
(* NameConstraints                                                         *)
(***************************************************************************)
\* the classes of ipaddress (standard library) _validate_ip_name accepts
NetworkClasses == {"IPv4Network", "IPv6Network"}

\* faulty variant: only the first name of the tree is looked at
_validate_ip_name_FirstOnly(tree) ==
    /\ Len(tree) > 0
    /\ isinstance(tree[1], "IPAddress")
    /\ ~(\E c \in NetworkClasses : isinstance(tree[1]._value, c))

\* _validate_ip_name: TRUE when it raises TypeError, which it does when any
\* IPAddress of the tree carries a value that is no network
_validate_ip_name(tree) ==
    \E k \in 1..Len(tree) :
        /\ isinstance(tree[k], "IPAddress")
        /\ ~(\E c \in NetworkClasses : isinstance(tree[k]._value, c))

\* faulty variant: an empty list is let through
SubtreeError_EmptyAllowed(tree) ==
    IF ~AllInstances(tree, "GeneralName") THEN "TypeError"
    ELSE IF _validate_ip_name(tree) THEN "TypeError"
    ELSE "none"

\* the checks __init__ makes on a subtree that is not None, in their order:
\* the exception raised, or "none"
SubtreeError(tree) ==
    IF Len(tree) = 0 THEN "ValueError"
    ELSE IF ~AllInstances(tree, "GeneralName") THEN "TypeError"
    ELSE IF _validate_ip_name(tree) THEN "TypeError"
    ELSE "none"

\* __init__: permitted_subtrees is checked first, then excluded_subtrees, then
\* that one of them is given; both are stored as lists
NameConstraints_init(permitted_subtrees, excluded_subtrees) ==
    IF permitted_subtrees # None /\ SubtreeError(permitted_subtrees.items) # "none"
    THEN Raise(SubtreeError(permitted_subtrees.items))
    ELSE IF excluded_subtrees # None /\ SubtreeError(excluded_subtrees.items) # "none"
    THEN Raise(SubtreeError(excluded_subtrees.items))
    ELSE IF permitted_subtrees = None /\ excluded_subtrees = None
    THEN Raise("ValueError")
    ELSE Return([type |-> "NameConstraints",
                 _permitted_subtrees |-> permitted_subtrees,
                 _excluded_subtrees |-> excluded_subtrees])

\* the objects given in a subtree: a DNS name, IPAddress names carrying a
\* network and carrying a bare address, and a str that is no general name
SubtreeObjects ==
    {GeneralName("DNSName", PyStr("a.example")),
     GeneralName("IPAddress", [type |-> "IPv4Network", val |-> "10.0.0.0/8"]),
     GeneralName("IPAddress", [type |-> "IPv6Network", val |-> "fd00::/8"]),
     GeneralName("IPAddress", [type |-> "IPv4Address", val |-> "10.0.0.1"]),
     PyStr("a.example")}

\* the values given as a subtree: None or a list, [] included
SubtreesGiven ==
    {None} \cup {PyList(l) : l \in SeqsUpTo(SubtreeObjects, MaxSubtrees)}

(***************************************************************************)
(* AuthorityKeyIdentifier                                                  *)
(***************************************************************************)
\* faulty variant: presence is tested by truth value
IssuerSerialMismatch_Truthy(authority_cert_issuer, authority_cert_serial_number) ==
    Truthy(authority_cert_issuer) # Truthy(authority_cert_serial_number)

\* exactly one of authority_cert_issuer, authority_cert_serial_number is None
IssuerSerialMismatch(authority_cert_issuer, authority_cert_serial_number) ==
    (authority_cert_issuer = None) # (authority_cert_serial_number = None)

\* __init__: the checks in the order of the code; authority_cert_issuer is
\* copied into a list, key_identifier is stored unchecked
AuthorityKeyIdentifier_init(key_identifier, authority_cert_issuer, authority_cert_serial_number) ==
    IF IssuerSerialMismatch(authority_cert_issuer, authority_cert_serial_number)
    THEN Raise("ValueError")
    ELSE IF /\ authority_cert_issuer # None
            /\ ~AllInstances(authority_cert_issuer.items, "GeneralName")
    THEN Raise("TypeError")
    ELSE IF /\ authority_cert_serial_number # None
            /\ ~isinstance(authority_cert_serial_number, "int")
    THEN Raise("TypeError")
    ELSE Return([type |-> "AuthorityKeyIdentifier",
                 _key_identifier |-> key_identifier,
                 _authority_cert_issuer |-> authority_cert_issuer,
                 _authority_cert_serial_number |-> authority_cert_serial_number])

\* the values given as key_identifier: None or a digest
KeyIdentifierGiven == {None, [type |-> "bytes", val |-> "a1b2"]}

\* the values given as authority_cert_serial_number: None, ints (0 included)
\* and a str that is none
SerialNumberGiven == {None, PyInt(0), PyInt(1), PyStr("1")}

(***************************************************************************)
(* PolicyConstraints                                                       *)
(***************************************************************************)
\* faulty variant: both arguments may be None
PolicyConstraints_init_NoneAllowed(require_explicit_policy, inhibit_policy_mapping) ==
    IF require_explicit_policy # None /\ ~isinstance(require_explicit_policy, "int")
    THEN Raise("TypeError")
    ELSE IF inhibit_policy_mapping # None /\ ~isinstance(inhibit_policy_mapping, "int")
    THEN Raise("TypeError")
    ELSE Return([type |-> "PolicyConstraints",
                 _require_explicit_policy |-> require_explicit_policy,
                 _inhibit_policy_mapping |-> inhibit_policy_mapping])

\* __init__: the checks in the order of the code; the sign of an int is not
\* looked at
PolicyConstraints_init(require_explicit_policy, inhibit_policy_mapping) ==
    IF require_explicit_policy # None /\ ~isinstance(require_explicit_policy, "int")
    THEN Raise("TypeError")
    ELSE IF inhibit_policy_mapping # None /\ ~isinstance(inhibit_policy_mapping, "int")
    THEN Raise("TypeError")
    ELSE IF inhibit_policy_mapping = None /\ require_explicit_policy = None
    THEN Raise("ValueError")
    ELSE Return([type |-> "PolicyConstraints",
                 _require_explicit_policy |-> require_explicit_policy,
                 _inhibit_policy_mapping |-> inhibit_policy_mapping])

\* the values given as a skip count: None, ints of either sign, a bool and a
\* str that is no int
SkipCertsGiven ==
    {None, PyBool(TRUE), PyStr("1")} \cup {PyInt(n) : n \in -1..MaxSkipCerts}

(***************************************************************************)
(* TLSFeature and TLSFeatureType                                           *)
(***************************************************************************)
\* the members of the enumeration TLSFeatureType
TLSFeatureType ==
    {[type |-> "TLSFeatureType", name |-> "status_request", value |-> 5],
     [type |-> "TLSFeatureType", name |-> "status_request_v2", value |-> 17]}

\* faulty variant: one member among the features is enough
TLSFeature_init_AnyMember(features) ==
    IF \/ ~(\E k \in 1..Len(features.items) : isinstance(features.items[k], "TLSFeatureType"))
       \/ Len(features.items) = 0
    THEN Raise("TypeError")
    ELSE Return([type |-> "TLSFeature", _features |-> features])

\* __init__: features is copied into a list; a list that is empty or holds
\* anything but members of TLSFeatureType is a TypeError
TLSFeature_init(features) ==
    IF \/ ~AllInstances(features.items, "TLSFeatureType")
       \/ Len(features.items) = 0
    THEN Raise("TypeError")
    ELSE Return([type |-> "TLSFeature", _features |-> features])

\* the objects given in features: the members, and the int and the str a
\* member is written as
FeatureObjects == TLSFeatureType \cup {PyInt(5), PyStr("status_request")}

\* the lists given as features, [] included
FeaturesGiven == {PyList(l) : l \in SeqsUpTo(FeatureObjects, MaxFeatures)}

\* the values a constructor returned, those it raised for left out
Values(results) == {r.value : r \in {x \in results : x.kind = "return"}}

(***************************************************************************)
(* The elements of the sequence-valued extensions.                         *)
(***************************************************************************)
AccessDescription_init(access_method, access_location) ==
    IF ~isinstance(access_method, "ObjectIdentifier")
    THEN Raise("TypeError")
    ELSE IF ~isinstance(access_location, "GeneralName")
    THEN Raise("TypeError")
    ELSE Return([type |-> "AccessDescription",
                 _access_method |-> access_method,
                 _access_location |-> access_location])

\* __init__: policy_qualifiers is None or is copied into a list of str and
\* UserNotice
PolicyInformation_init(policy_identifier, policy_qualifiers) ==
    IF ~isinstance(policy_identifier, "ObjectIdentifier")
    THEN Raise("TypeError")
    ELSE IF /\ policy_qualifiers # None
            /\ ~(\A k \in 1..Len(policy_qualifiers.items) :
                    \/ isinstance(policy_qualifiers.items[k], "str")
                    \/ isinstance(policy_qualifiers.items[k], "UserNotice"))
    THEN Raise("TypeError")
    ELSE Return([type |-> "PolicyInformation",
                 _policy_identifier |-> policy_identifier,
                 _policy_qualifiers |-> policy_qualifiers])

\* certificate_transparency.py (external): a timestamp, told apart by its log
SignedCertificateTimestamp(log_id) ==
    [type |-> "SignedCertificateTimestamp", log_id |-> log_id]

(***************************************************************************)
(* The sequence-valued extensions: each copies its argument into a list    *)
(* and refuses it when an item is not of the element class.                *)
(***************************************************************************)
AuthorityInformationAccess_init(descriptions) ==
    IF ~AllInstances(descriptions.items, "AccessDescription")
    THEN Raise("TypeError")
    ELSE Return([type |-> "AuthorityInformationAccess", _descriptions |-> descriptions])

SubjectInformationAccess_init(descriptions) ==
    IF ~AllInstances(descriptions.items, "AccessDescription")
    THEN Raise("TypeError")
    ELSE Return([type |-> "SubjectInformationAccess", _descriptions |-> descriptions])

CRLDistributionPoints_init(distribution_points) ==
    IF ~AllInstances(distribution_points.items, "DistributionPoint")
    THEN Raise("TypeError")
    ELSE Return([type |-> "CRLDistributionPoints", _distribution_points |-> distribution_points])

FreshestCRL_init(distribution_points) ==
    IF ~AllInstances(distribution_points.items, "DistributionPoint")
    THEN Raise("TypeError")
    ELSE Return([type |-> "FreshestCRL", _distribution_points |-> distribution_points])

CertificatePolicies_init(policies) ==
    IF ~AllInstances(policies.items, "PolicyInformation")
    THEN Raise("TypeError")
    ELSE Return([type |-> "CertificatePolicies", _policies |-> policies])

\* faulty variant: only the first item is looked at
ExtendedKeyUsage_init_FirstOnly(usages) ==
    IF Len(usages.items) > 0 /\ ~isinstance(usages.items[1], "ObjectIdentifier")
    THEN Raise("TypeError")
    ELSE Return([type |-> "ExtendedKeyUsage", _usages |-> usages])

ExtendedKeyUsage_init(usages) ==
    IF ~AllInstances(usages.items, "ObjectIdentifier")
    THEN Raise("TypeError")
    ELSE Return([type |-> "ExtendedKeyUsage", _usages |-> usages])

PrecertificateSignedCertificateTimestamps_init(signed_certificate_timestamps) ==
    IF ~AllInstances(signed_certificate_timestamps.items, "SignedCertificateTimestamp")
    THEN Raise("TypeError")
    ELSE Return([type |-> "PrecertificateSignedCertificateTimestamps", _signed_certificate_timestamps |-> signed_certificate_timestamps])

SignedCertificateTimestamps_init(signed_certificate_timestamps) ==
    IF ~AllInstances(signed_certificate_timestamps.items, "SignedCertificateTimestamp")
    THEN Raise("TypeError")
    ELSE Return([type |-> "SignedCertificateTimestamps", _signed_certificate_timestamps |-> signed_certificate_timestamps])

\* the container and the sequence-valued extensions, whose __len__, __iter__
\* and __getitem__ come from _make_sequence_methods
SequenceClasses ==
    {"Extensions", "AuthorityInformationAccess",
     "SubjectInformationAccess", "CRLDistributionPoints", "FreshestCRL",
     "CertificatePolicies", "ExtendedKeyUsage",
     "PrecertificateSignedCertificateTimestamps", "SignedCertificateTimestamps"}

\* the field name each class gives to _make_sequence_methods
SequenceFieldName(class) ==
    CASE class = "Extensions" -> "_extensions"
      [] class \in {"AuthorityInformationAccess", "SubjectInformationAccess"} -> "_descriptions"
      [] class \in {"CRLDistributionPoints", "FreshestCRL"} -> "_distribution_points"
      [] class = "CertificatePolicies" -> "_policies"
      [] class = "ExtendedKeyUsage" -> "_usages"
      [] class \in {"PrecertificateSignedCertificateTimestamps",
                    "SignedCertificateTimestamps"} -> "_signed_certificate_timestamps"

\* getattr(self, field_name): the list the object holds
getattr(self, field_name) ==
    IF self.type = "Extensions"
    THEN PyList(self[field_name])
    ELSE self[field_name]

len_method(self, field_name) == Return(PyInt(Len(getattr(self, field_name).items)))

\* iter(): the items in the order of the list
iter_method(self, field_name) == Return(getattr(self, field_name))

\* list[idx] for an int: 0 is the first item, -1 the last, IndexError outside
getitem_method(self, field_name, idx) ==
    LET items == getattr(self, field_name).items
    IN  IF idx.val >= 0 /\ idx.val < Len(items)
        THEN ReturnItem(items[idx.val + 1], idx.val + 1)
        ELSE IF idx.val < 0 /\ idx.val >= -Len(items)
        THEN ReturnItem(items[Len(items) + idx.val + 1], Len(items) + idx.val + 1)
        ELSE Raise("IndexError")

\* the objects given as items of each class: two of the element class and a
\* str that is none
ElementObjects(class) ==
    CASE class \in {"AuthorityInformationAccess", "SubjectInformationAccess"} ->
            Values({AccessDescription_init(o, GeneralName("UniformResourceIdentifier", PyStr("http://a.example/crl"))) :
                        o \in {OID_BASIC_CONSTRAINTS, OID_KEY_USAGE}}) \cup {PyStr("a.example")}
      [] class \in {"CRLDistributionPoints", "FreshestCRL"} ->
            {DistributionPoint_init(PyList(<<GeneralName("DNSName", PyStr("a.example"))>>), None, None, None).value,
             DistributionPoint_init(None, RelativeDistinguishedName("CN=crl"), FrozenSet({ReasonFlag("key_compromise")}), None).value,
             PyStr("a.example")}
      [] class = "CertificatePolicies" ->
            Values({PolicyInformation_init(OID_UNKNOWN, q) : q \in {None, PyList(<<PyStr("cps")>>)}})
                \cup {PyStr("a.example")}
      [] class = "ExtendedKeyUsage" ->
            {OID_BASIC_CONSTRAINTS, OID_KEY_USAGE, PyStr("2.5.29.19")}
      [] class \in {"PrecertificateSignedCertificateTimestamps",
                    "SignedCertificateTimestamps"} ->
            {SignedCertificateTimestamp("log-a"), SignedCertificateTimestamp("log-b"),
             PyStr("a.example")}

\* the lists given to the constructor of a class, [] included
ElementsGiven(class) == {PyList(l) : l \in SeqsUpTo(ElementObjects(class), MaxItems)}

(***************************************************************************)
(* UnrecognizedExtension and the codec.                                    *)
(***************************************************************************)
\* bytes, told apart by their content
PyBytes(content) == [type |-> "bytes", val |-> content]

\* the Rust codec (external): the DER bytes of an extension value, a function
\* of the value
encode_extension_value(value) ==
    [type |-> "bytes", encoded_by |-> "encode_extension_value", of |-> value]

\* __init__: only oid is checked; value is stored as given
UnrecognizedExtension_init(oid, value) ==
    IF ~isinstance(oid, "ObjectIdentifier")
    THEN Raise("TypeError")
    ELSE Return([type |-> "UnrecognizedExtension", _oid |-> oid, _value |-> value])

UnrecognizedExtension_oid(self) == Return(self._oid)

UnrecognizedExtension_value(self) == Return(self._value)

\* faulty variant: the stored bytes are handed to the codec like any value
UnrecognizedExtension_public_bytes_Encoded(self) ==
    Return(encode_extension_value(self))

UnrecognizedExtension_public_bytes(self) == Return(self._value)

\* public_bytes of every other extension class: the codec's answer
public_bytes(self) ==
    IF self.type = "UnrecognizedExtension"
    THEN UnrecognizedExtension_public_bytes(self)
    ELSE Return(encode_extension_value(self))

\* the payloads given to UnrecognizedExtension: some bytes and no bytes
PayloadsGiven == {PyBytes("0500"), PyBytes("")}

(***************************************************************************)
(* CRLNumber, DeltaCRLIndicator, InhibitAnyPolicy, OCSPNoCheck and         *)
(* PrecertPoison.                                                          *)
(***************************************************************************)
CRLNumber_init(crl_number) ==
    IF ~isinstance(crl_number, "int")
    THEN Raise("TypeError")
    ELSE Return([type |-> "CRLNumber", _crl_number |-> crl_number])

DeltaCRLIndicator_init(crl_number) ==
    IF ~isinstance(crl_number, "int")
    THEN Raise("TypeError")
    ELSE Return([type |-> "DeltaCRLIndicator", _crl_number |-> crl_number])

InhibitAnyPolicy_init(skip_certs) ==
    IF ~isinstance(skip_certs, "int")
    THEN Raise("TypeError")
    ELSE IF IntValue(skip_certs) < 0
    THEN Raise("ValueError")
    ELSE Return([type |-> "InhibitAnyPolicy", _skip_certs |-> skip_certs])

\* the two classes define no __init__ and hold nothing
OCSPNoCheck_init == Return([type |-> "OCSPNoCheck"])

PrecertPoison_init == Return([type |-> "PrecertPoison"])

(***************************************************************************)
(* SubjectAlternativeName, IssuerAlternativeName and CertificateIssuer     *)
(* wrap a GeneralNames.                                                    *)
(***************************************************************************)
SubjectAlternativeName_init(general_names) ==
    IF GeneralNames_init(general_names).kind = "raise"
    THEN GeneralNames_init(general_names)
    ELSE Return([type |-> "SubjectAlternativeName",
                 _general_names |-> GeneralNames_init(general_names).value])

IssuerAlternativeName_init(general_names) ==
    IF GeneralNames_init(general_names).kind = "raise"
    THEN GeneralNames_init(general_names)
    ELSE Return([type |-> "IssuerAlternativeName",
                 _general_names |-> GeneralNames_init(general_names).value])

CertificateIssuer_init(general_names) ==
    IF GeneralNames_init(general_names).kind = "raise"
    THEN GeneralNames_init(general_names)
    ELSE Return([type |-> "CertificateIssuer",
                 _general_names |-> GeneralNames_init(general_names).value])

\* the lists of names given to the three: two DNS names and a str that is no
\* general name
AlternativeNamesGiven ==
    SeqsUpTo({GeneralName("DNSName", PyStr("a.example")),
              GeneralName("DNSName", PyStr("b.example")),
              PyStr("a.example")}, MaxItems)

(***************************************************************************)
(* SubjectKeyIdentifier and the key identifiers made from public keys.     *)
(***************************************************************************)
\* a public key of hazmat.primitives.asymmetric (external)
PublicKey(class, n) == [type |-> class, key |-> n]

\* the keys given: RSA, elliptic-curve and Ed25519 ones, two of each
PublicKeys ==
    {PublicKey(c, n) : c \in {"RSAPublicKey", "EllipticCurvePublicKey", "Ed25519PublicKey"},
                       n \in {"k1", "k2"}}

\* public_key.public_bytes(encoding, format) (external): the encoding of the
\* key in that format, a function of the three
PublicKey_public_bytes(public_key, encoding, format) ==
    [type |-> "bytes", key |-> public_key, encoding |-> encoding, format |-> format]

\* asn1.parse_spki_for_data (external): the key data inside a
\* SubjectPublicKeyInfo
parse_spki_for_data(serialized) == [type |-> "bytes", spki_data_of |-> serialized]

\* hashlib.sha1(data).digest()
sha1_digest(data) == [type |-> "bytes", sha1_of |-> data]

\* faulty variant: every key is hashed the slow way, over its SubjectPublicKeyInfo
_key_identifier_from_public_key_AlwaysSpki(public_key) ==
    sha1_digest(parse_spki_for_data(PublicKey_public_bytes(public_key, "DER", "SubjectPublicKeyInfo")))

_key_identifier_from_public_key(public_key) ==
    LET data ==
            IF isinstance(public_key, "RSAPublicKey")
            THEN PublicKey_public_bytes(public_key, "DER", "PKCS1")
            ELSE IF isinstance(public_key, "EllipticCurvePublicKey")
            THEN PublicKey_public_bytes(public_key, "X962", "UncompressedPoint")
            ELSE parse_spki_for_data(PublicKey_public_bytes(public_key, "DER", "SubjectPublicKeyInfo"))
    IN  sha1_digest(data)

\* __init__: the digest is stored unchecked
SubjectKeyIdentifier_init(digest) ==
    Return([type |-> "SubjectKeyIdentifier", _digest |-> digest])

SubjectKeyIdentifier_from_public_key(public_key) ==
    SubjectKeyIdentifier_init(_key_identifier_from_public_key(public_key))

SubjectKeyIdentifier_digest(self) == Return(self._digest)

AuthorityKeyIdentifier_from_issuer_public_key(public_key) ==
    AuthorityKeyIdentifier_init(_key_identifier_from_public_key(public_key), None, None)

AuthorityKeyIdentifier_from_issuer_subject_key_identifier(ski) ==
    AuthorityKeyIdentifier_init(SubjectKeyIdentifier_digest(ski).value, None, None)

\* constant_time.bytes_eq (external): TypeError unless both are bytes
bytes_eq(a, b) ==
    IF a.type # "bytes" \/ b.type # "bytes" THEN Raise("TypeError")
    ELSE Return(PyBool(a = b))

\* the digests given to SubjectKeyIdentifier(): bytes, as the parameter declares
DigestsGiven ==
    {PyBytes("a1b2")} \cup {_key_identifier_from_public_key(k) : k \in PublicKeys}

(***************************************************************************)
(* Equality and hashing.  Python's == asks the left operand's __eq__, then *)
(* the right one's, and falls back on identity; hash() of a tuple hashes   *)
(* its items and hash() of a list raises TypeError.                        *)
(***************************************************************************)
PyTuple(items) == [type |-> "tuple", items |-> items]

NotImplemented == [type |-> "NotImplementedType"]

\* tuple(x) for x a list
tuple(x) == PyTuple(x.items)

\* the classes of this model that define __eq__ and __hash__
ValueClasses ==
    {"BasicConstraints", "KeyUsage", "DistributionPoint",
     "IssuingDistributionPoint", "NameConstraints", "AuthorityKeyIdentifier",
     "PolicyConstraints", "TLSFeature", "GeneralNames", "AccessDescription",
     "PolicyInformation", "AuthorityInformationAccess",
     "SubjectInformationAccess", "CRLDistributionPoints", "FreshestCRL",
     "CertificatePolicies", "ExtendedKeyUsage",
     "PrecertificateSignedCertificateTimestamps",
     "SignedCertificateTimestamps", "UnrecognizedExtension", "CRLNumber",
     "DeltaCRLIndicator", "InhibitAnyPolicy", "OCSPNoCheck", "PrecertPoison",
     "SubjectAlternativeName", "IssuerAlternativeName", "CertificateIssuer",
     "SubjectKeyIdentifier"}

RECURSIVE PyEq(_, _)
RECURSIVE hash(_)

\* a and b and ... over the fields two objects are compared by
AllEq(pairs) == PyBool(\A k \in 1..Len(pairs) : PyEq(pairs[k][1], pairs[k][2]))

BasicConstraints_eq(self, other) ==
    IF ~isinstance(other, "BasicConstraints") THEN NotImplemented
    ELSE AllEq(<< <<self._ca, other._ca>>, <<self._path_length, other._path_length>> >>)

BasicConstraints_hash(self) == hash(PyTuple(<<self._ca, self._path_length>>))

KeyUsage_eq(self, other) ==
    IF ~isinstance(other, "KeyUsage") THEN NotImplemented
    ELSE AllEq(<< <<self._digital_signature, other._digital_signature>>,
                  <<self._content_commitment, other._content_commitment>>,
                  <<self._key_encipherment, other._key_encipherment>>,
                  <<self._data_encipherment, other._data_encipherment>>,
                  <<self._key_agreement, other._key_agreement>>,
                  <<self._key_cert_sign, other._key_cert_sign>>,
                  <<self._crl_sign, other._crl_sign>>,
                  <<self._encipher_only, other._encipher_only>>,
                  <<self._decipher_only, other._decipher_only>> >>)

KeyUsage_hash(self) ==
    hash(PyTuple(<<self._digital_signature, self._content_commitment,
                   self._key_encipherment, self._data_encipherment,
                   self._key_agreement, self._key_cert_sign, self._crl_sign,
                   self._encipher_only, self._decipher_only>>))

DistributionPoint_eq(self, other) ==
    IF ~isinstance(other, "DistributionPoint") THEN NotImplemented
    ELSE AllEq(<< <<self._full_name, other._full_name>>,
                  <<self._relative_name, other._relative_name>>,
                  <<self._reasons, other._reasons>>,
                  <<self._crl_issuer, other._crl_issuer>> >>)

\* __hash__: full_name and crl_issuer are turned into tuples first
DistributionPoint_hash(self) ==
    LET fn == IF self._full_name # None THEN tuple(self._full_name) ELSE None
        crl_issuer == IF self._crl_issuer # None THEN tuple(self._crl_issuer) ELSE None
    IN  hash(PyTuple(<<fn, self._relative_name, self._reasons, crl_issuer>>))

IssuingDistributionPoint_eq(self, other) ==
    IF ~isinstance(other, "IssuingDistributionPoint") THEN NotImplemented
    ELSE AllEq(<< <<self._full_name, other._full_name>>,
                  <<self._relative_name, other._relative_name>>,
                  <<self._only_contains_user_certs, other._only_contains_user_certs>>,
                  <<self._only_contains_ca_certs, other._only_contains_ca_certs>>,
                  <<self._only_some_reasons, other._only_some_reasons>>,
                  <<self._indirect_crl, other._indirect_crl>>,
                  <<self._only_contains_attribute_certs, other._only_contains_attribute_certs>> >>)

\* __hash__: the fields are hashed as they are stored, full_name as a list
IssuingDistributionPoint_hash(self) ==
    hash(PyTuple(<<self._full_name, self._relative_name,
                   self._only_contains_user_certs, self._only_contains_ca_certs,
                   self._only_some_reasons, self._indirect_crl,
                   self._only_contains_attribute_certs>>))

NameConstraints_eq(self, other) ==
    IF ~isinstance(other, "NameConstraints") THEN NotImplemented
    ELSE AllEq(<< <<self._excluded_subtrees, other._excluded_subtrees>>,
                  <<self._permitted_subtrees, other._permitted_subtrees>> >>)

NameConstraints_hash(self) ==
    LET ps == IF self._permitted_subtrees # None THEN tuple(self._permitted_subtrees) ELSE None
        es == IF self._excluded_subtrees # None THEN tuple(self._excluded_subtrees) ELSE None
    IN  hash(PyTuple(<<ps, es>>))

AuthorityKeyIdentifier_eq(self, other) ==
    IF ~isinstance(other, "AuthorityKeyIdentifier") THEN NotImplemented
    ELSE AllEq(<< <<self._key_identifier, other._key_identifier>>,
                  <<self._authority_cert_issuer, other._authority_cert_issuer>>,
                  <<self._authority_cert_serial_number, other._authority_cert_serial_number>> >>)

AuthorityKeyIdentifier_hash(self) ==
    LET aci == IF self._authority_cert_issuer = None THEN None
               ELSE tuple(self._authority_cert_issuer)
    IN  hash(PyTuple(<<self._key_identifier, aci, self._authority_cert_serial_number>>))

PolicyConstraints_eq(self, other) ==
    IF ~isinstance(other, "PolicyConstraints") THEN NotImplemented
    ELSE AllEq(<< <<self._require_explicit_policy, other._require_explicit_policy>>,
                  <<self._inhibit_policy_mapping, other._inhibit_policy_mapping>> >>)

PolicyConstraints_hash(self) ==
    hash(PyTuple(<<self._require_explicit_policy, self._inhibit_policy_mapping>>))

TLSFeature_eq(self, other) ==
    IF ~isinstance(other, "TLSFeature") THEN NotImplemented
    ELSE AllEq(<< <<self._features, other._features>> >>)

TLSFeature_hash(self) == hash(tuple(self._features))

GeneralNames_eq(self, other) ==
    IF ~isinstance(other, "GeneralNames") THEN NotImplemented
    ELSE AllEq(<< <<PyList(self._general_names), PyList(other._general_names)>> >>)

GeneralNames_hash(self) == hash(PyTuple(self._general_names))

AccessDescription_eq(self, other) ==
    IF ~isinstance(other, "AccessDescription") THEN NotImplemented
    ELSE AllEq(<< <<self._access_method, other._access_method>>,
                  <<self._access_location, other._access_location>> >>)

AccessDescription_hash(self) ==
    hash(PyTuple(<<self._access_method, self._access_location>>))

PolicyInformation_eq(self, other) ==
    IF ~isinstance(other, "PolicyInformation") THEN NotImplemented
    ELSE AllEq(<< <<self._policy_identifier, other._policy_identifier>>,
                  <<self._policy_qualifiers, other._policy_qualifiers>> >>)

PolicyInformation_hash(self) ==
    LET pq == IF self._policy_qualifiers # None THEN tuple(self._policy_qualifiers) ELSE None
    IN  hash(PyTuple(<<self._policy_identifier, pq>>))

AuthorityInformationAccess_eq(self, other) ==
    IF ~isinstance(other, "AuthorityInformationAccess") THEN NotImplemented
    ELSE AllEq(<< <<self._descriptions, other._descriptions>> >>)

AuthorityInformationAccess_hash(self) == hash(tuple(self._descriptions))

SubjectInformationAccess_eq(self, other) ==
    IF ~isinstance(other, "SubjectInformationAccess") THEN NotImplemented
    ELSE AllEq(<< <<self._descriptions, other._descriptions>> >>)

SubjectInformationAccess_hash(self) == hash(tuple(self._descriptions))

\* faulty variant: the two lists are compared as sets of items
CRLDistributionPoints_eq_Unordered(self, other) ==
    IF ~isinstance(other, "CRLDistributionPoints") THEN NotImplemented
    ELSE PyBool({self._distribution_points.items[k] : k \in 1..Len(self._distribution_points.items)}
                    = {other._distribution_points.items[k] : k \in 1..Len(other._distribution_points.items)})

CRLDistributionPoints_eq(self, other) ==
    IF ~isinstance(other, "CRLDistributionPoints") THEN NotImplemented
    ELSE AllEq(<< <<self._distribution_points, other._distribution_points>> >>)

CRLDistributionPoints_hash(self) == hash(tuple(self._distribution_points))

FreshestCRL_eq(self, other) ==
    IF ~isinstance(other, "FreshestCRL") THEN NotImplemented
    ELSE AllEq(<< <<self._distribution_points, other._distribution_points>> >>)

FreshestCRL_hash(self) == hash(tuple(self._distribution_points))

CertificatePolicies_eq(self, other) ==
    IF ~isinstance(other, "CertificatePolicies") THEN NotImplemented
    ELSE AllEq(<< <<self._policies, other._policies>> >>)

CertificatePolicies_hash(self) == hash(tuple(self._policies))

ExtendedKeyUsage_eq(self, other) ==
    IF ~isinstance(other, "ExtendedKeyUsage") THEN NotImplemented
    ELSE AllEq(<< <<self._usages, other._usages>> >>)

ExtendedKeyUsage_hash(self) == hash(tuple(self._usages))

PrecertificateSignedCertificateTimestamps_eq(self, other) ==
    IF ~isinstance(other, "PrecertificateSignedCertificateTimestamps") THEN NotImplemented
    ELSE AllEq(<< <<self._signed_certificate_timestamps, other._signed_certificate_timestamps>> >>)

PrecertificateSignedCertificateTimestamps_hash(self) == hash(tuple(self._signed_certificate_timestamps))

SignedCertificateTimestamps_eq(self, other) ==
    IF ~isinstance(other, "SignedCertificateTimestamps") THEN NotImplemented
    ELSE AllEq(<< <<self._signed_certificate_timestamps, other._signed_certificate_timestamps>> >>)

SignedCertificateTimestamps_hash(self) == hash(tuple(self._signed_certificate_timestamps))

UnrecognizedExtension_eq(self, other) ==
    IF ~isinstance(other, "UnrecognizedExtension") THEN NotImplemented
    ELSE AllEq(<< <<self._oid, other._oid>>, <<self._value, other._value>> >>)

UnrecognizedExtension_hash(self) == hash(PyTuple(<<self._oid, self._value>>))

\* faulty variant: any value that has a crl_number is compared by it
CRLNumber_eq_AnyNumber(self, other) ==
    IF other.type \notin {"CRLNumber", "DeltaCRLIndicator"} THEN NotImplemented
    ELSE AllEq(<< <<self._crl_number, other._crl_number>> >>)

CRLNumber_eq(self, other) ==
    IF ~isinstance(other, "CRLNumber") THEN NotImplemented
    ELSE AllEq(<< <<self._crl_number, other._crl_number>> >>)

CRLNumber_hash(self) == hash(self._crl_number)

DeltaCRLIndicator_eq(self, other) ==
    IF ~isinstance(other, "DeltaCRLIndicator") THEN NotImplemented
    ELSE AllEq(<< <<self._crl_number, other._crl_number>> >>)

DeltaCRLIndicator_hash(self) == hash(self._crl_number)

InhibitAnyPolicy_eq(self, other) ==
    IF ~isinstance(other, "InhibitAnyPolicy") THEN NotImplemented
    ELSE AllEq(<< <<self._skip_certs, other._skip_certs>> >>)

InhibitAnyPolicy_hash(self) == hash(self._skip_certs)

OCSPNoCheck_eq(self, other) ==
    IF ~isinstance(other, "OCSPNoCheck") THEN NotImplemented
    ELSE PyBool(TRUE)

\* hash(OCSPNoCheck): the hash of the class object
OCSPNoCheck_hash(self) == hash([type |-> "type", name |-> "OCSPNoCheck"])

PrecertPoison_eq(self, other) ==
    IF ~isinstance(other, "PrecertPoison") THEN NotImplemented
    ELSE PyBool(TRUE)

PrecertPoison_hash(self) == hash([type |-> "type", name |-> "PrecertPoison"])

SubjectAlternativeName_eq(self, other) ==
    IF ~isinstance(other, "SubjectAlternativeName") THEN NotImplemented
    ELSE AllEq(<< <<self._general_names, other._general_names>> >>)

SubjectAlternativeName_hash(self) == hash(self._general_names)

IssuerAlternativeName_eq(self, other) ==
    IF ~isinstance(other, "IssuerAlternativeName") THEN NotImplemented
    ELSE AllEq(<< <<self._general_names, other._general_names>> >>)

IssuerAlternativeName_hash(self) == hash(self._general_names)

CertificateIssuer_eq(self, other) ==
    IF ~isinstance(other, "CertificateIssuer") THEN NotImplemented
    ELSE AllEq(<< <<self._general_names, other._general_names>> >>)

CertificateIssuer_hash(self) == hash(self._general_names)

\* __eq__: the digests are compared in constant time
SubjectKeyIdentifier_eq(self, other) ==
    IF ~isinstance(other, "SubjectKeyIdentifier") THEN NotImplemented
    ELSE bytes_eq(self._digest, other._digest).value

SubjectKeyIdentifier_hash(self) == hash(self._digest)

\* type(a).__eq__(a, b): the class's own comparison; the built-in types and the
\* classes of other modules answer NotImplemented for an operand of this model
ClassEq(a, b) ==
    CASE a.type = "BasicConstraints" -> BasicConstraints_eq(a, b)
      [] a.type = "KeyUsage" -> KeyUsage_eq(a, b)
      [] a.type = "DistributionPoint" -> DistributionPoint_eq(a, b)
      [] a.type = "IssuingDistributionPoint" -> IssuingDistributionPoint_eq(a, b)
      [] a.type = "NameConstraints" -> NameConstraints_eq(a, b)
      [] a.type = "AuthorityKeyIdentifier" -> AuthorityKeyIdentifier_eq(a, b)
      [] a.type = "PolicyConstraints" -> PolicyConstraints_eq(a, b)
      [] a.type = "TLSFeature" -> TLSFeature_eq(a, b)
      [] a.type = "GeneralNames" -> GeneralNames_eq(a, b)
      [] a.type = "AccessDescription" -> AccessDescription_eq(a, b)
      [] a.type = "PolicyInformation" -> PolicyInformation_eq(a, b)
      [] a.type = "AuthorityInformationAccess" -> AuthorityInformationAccess_eq(a, b)
      [] a.type = "SubjectInformationAccess" -> SubjectInformationAccess_eq(a, b)
      [] a.type = "CRLDistributionPoints" -> CRLDistributionPoints_eq(a, b)
      [] a.type = "FreshestCRL" -> FreshestCRL_eq(a, b)
      [] a.type = "CertificatePolicies" -> CertificatePolicies_eq(a, b)
      [] a.type = "ExtendedKeyUsage" -> ExtendedKeyUsage_eq(a, b)
      [] a.type = "PrecertificateSignedCertificateTimestamps" -> PrecertificateSignedCertificateTimestamps_eq(a, b)
      [] a.type = "SignedCertificateTimestamps" -> SignedCertificateTimestamps_eq(a, b)
      [] a.type = "UnrecognizedExtension" -> UnrecognizedExtension_eq(a, b)
      [] a.type = "CRLNumber" -> CRLNumber_eq(a, b)
      [] a.type = "DeltaCRLIndicator" -> DeltaCRLIndicator_eq(a, b)
      [] a.type = "InhibitAnyPolicy" -> InhibitAnyPolicy_eq(a, b)
      [] a.type = "OCSPNoCheck" -> OCSPNoCheck_eq(a, b)
      [] a.type = "PrecertPoison" -> PrecertPoison_eq(a, b)
      [] a.type = "SubjectAlternativeName" -> SubjectAlternativeName_eq(a, b)
      [] a.type = "IssuerAlternativeName" -> IssuerAlternativeName_eq(a, b)
      [] a.type = "CertificateIssuer" -> CertificateIssuer_eq(a, b)
      [] a.type = "SubjectKeyIdentifier" -> SubjectKeyIdentifier_eq(a, b)
      [] OTHER -> NotImplemented

\* a == b.  Lists compare item by item in order, frozensets as sets, bool and
\* int by number, the other built-in and external values by value
PyEq(a, b) ==
    IF a.type \in ValueClasses \/ b.type \in ValueClasses
    THEN IF ClassEq(a, b) # NotImplemented THEN ClassEq(a, b).val
         ELSE IF ClassEq(b, a) # NotImplemented THEN ClassEq(b, a).val
         ELSE FALSE
    ELSE IF a.type = "list" /\ b.type = "list"
    THEN /\ Len(a.items) = Len(b.items)
         /\ \A k \in 1..Len(a.items) : PyEq(a.items[k], b.items[k])
    ELSE IF isinstance(a, "int") /\ isinstance(b, "int")
    THEN IntValue(a) = IntValue(b)
    ELSE a = b

\* type(x).__hash__(x) for the classes of this model
ClassHash(x) ==
    CASE x.type = "BasicConstraints" -> BasicConstraints_hash(x)
      [] x.type = "KeyUsage" -> KeyUsage_hash(x)
      [] x.type = "DistributionPoint" -> DistributionPoint_hash(x)
      [] x.type = "IssuingDistributionPoint" -> IssuingDistributionPoint_hash(x)
      [] x.type = "NameConstraints" -> NameConstraints_hash(x)
      [] x.type = "AuthorityKeyIdentifier" -> AuthorityKeyIdentifier_hash(x)
      [] x.type = "PolicyConstraints" -> PolicyConstraints_hash(x)
      [] x.type = "TLSFeature" -> TLSFeature_hash(x)
      [] x.type = "GeneralNames" -> GeneralNames_hash(x)
      [] x.type = "AccessDescription" -> AccessDescription_hash(x)
      [] x.type = "PolicyInformation" -> PolicyInformation_hash(x)
      [] x.type = "AuthorityInformationAccess" -> AuthorityInformationAccess_hash(x)
      [] x.type = "SubjectInformationAccess" -> SubjectInformationAccess_hash(x)
      [] x.type = "CRLDistributionPoints" -> CRLDistributionPoints_hash(x)
      [] x.type = "FreshestCRL" -> FreshestCRL_hash(x)
      [] x.type = "CertificatePolicies" -> CertificatePolicies_hash(x)
      [] x.type = "ExtendedKeyUsage" -> ExtendedKeyUsage_hash(x)
      [] x.type = "PrecertificateSignedCertificateTimestamps" -> PrecertificateSignedCertificateTimestamps_hash(x)
      [] x.type = "SignedCertificateTimestamps" -> SignedCertificateTimestamps_hash(x)
      [] x.type = "UnrecognizedExtension" -> UnrecognizedExtension_hash(x)
      [] x.type = "CRLNumber" -> CRLNumber_hash(x)
      [] x.type = "DeltaCRLIndicator" -> DeltaCRLIndicator_hash(x)
      [] x.type = "InhibitAnyPolicy" -> InhibitAnyPolicy_hash(x)
      [] x.type = "OCSPNoCheck" -> OCSPNoCheck_hash(x)
      [] x.type = "PrecertPoison" -> PrecertPoison_hash(x)
      [] x.type = "SubjectAlternativeName" -> SubjectAlternativeName_hash(x)
      [] x.type = "IssuerAlternativeName" -> IssuerAlternativeName_hash(x)
      [] x.type = "CertificateIssuer" -> CertificateIssuer_hash(x)
      [] x.type = "SubjectKeyIdentifier" -> SubjectKeyIdentifier_hash(x)

\* hash(x): a list is unhashable; a tuple hashes its items, in order, and
\* raises when one of them does; True and 1 hash alike; every other built-in
\* or external value has a hash that is a function of the value
hash(x) ==
    IF x.type \in ValueClasses THEN ClassHash(x)
    ELSE IF x.type = "list" THEN Raise("TypeError")
    ELSE IF x.type = "tuple"
    THEN IF \E k \in 1..Len(x.items) : hash(x.items[k]).kind = "raise"
         THEN Raise("TypeError")
         ELSE Return([hash_of |-> "tuple",
                      items |-> [k \in 1..Len(x.items) |-> hash(x.items[k]).value]])
    ELSE IF isinstance(x, "int") THEN Return([hash_of |-> PyInt(IntValue(x))])
    ELSE Return([hash_of |-> x])

\* the values an object of a class is compared with: values of the same class,
\* built by its constructor from a few arguments
SameClassComparands(class) ==
    CASE class = "BasicConstraints" ->
            Values({BasicConstraints_init(ca, pl) : ca \in PyBools, pl \in PathLengthGiven})
      [] class = "KeyUsage" ->
            Values({KeyUsage_init(PyBool(TRUE), PyBool(FALSE), PyBool(FALSE), PyBool(FALSE), ka, PyBool(FALSE), PyBool(FALSE), eo, do) :
                        ka \in PyBools, eo \in PyBools, do \in PyBools})
      [] class = "DistributionPoint" ->
            Values({DistributionPoint_init(fn, None, rs, None) :
                        fn \in {None, PyList(<<GeneralName("DNSName", PyStr("a.example"))>>)},
                        rs \in {None} \cup {FrozenSet(S) : S \in SUBSET {ReasonFlag("key_compromise"),
                                                                         ReasonFlag("ca_compromise")}}})
      [] class = "IssuingDistributionPoint" ->
            Values({IssuingDistributionPoint_init(fn, None, uc, PyBool(FALSE), rs, PyBool(FALSE), PyBool(FALSE)) :
                        fn \in {None, PyList(<<GeneralName("DNSName", PyStr("a.example"))>>)},
                        uc \in PyBools,
                        rs \in {None, FrozenSet({ReasonFlag("key_compromise")}),
                                FrozenSet({ReasonFlag("key_compromise"), ReasonFlag("ca_compromise")})}})
      [] class = "NameConstraints" ->
            Values({NameConstraints_init(p, e) :
                        p \in {None} \cup {PyList(l) : l \in SeqsUpTo({GeneralName("DNSName", PyStr("a.example"))}, MaxSubtrees)},
                        e \in {None, PyList(<<GeneralName("DNSName", PyStr("a.example"))>>)}})
      [] class = "AuthorityKeyIdentifier" ->
            Values({AuthorityKeyIdentifier_init(ki, aci, sn) :
                        ki \in KeyIdentifierGiven,
                        aci \in {None, PyList(<<GeneralName("DNSName", PyStr("a.example"))>>)},
                        sn \in {None, PyInt(0), PyInt(1)}})
      [] class = "PolicyConstraints" ->
            Values({PolicyConstraints_init(rep, ipm) :
                        rep \in {None, PyBool(TRUE), PyInt(0), PyInt(1)}, ipm \in {None, PyInt(1)}})
      [] class = "TLSFeature" ->
            Values({TLSFeature_init(PyList(l)) : l \in SeqsUpTo(TLSFeatureType, MaxFeatures)})
      [] class = "AuthorityInformationAccess" ->
            Values({AuthorityInformationAccess_init(l) : l \in ElementsGiven("AuthorityInformationAccess")})
      [] class = "SubjectInformationAccess" ->
            Values({SubjectInformationAccess_init(l) : l \in ElementsGiven("SubjectInformationAccess")})
      [] class = "CRLDistributionPoints" ->
            Values({CRLDistributionPoints_init(l) : l \in ElementsGiven("CRLDistributionPoints")})
      [] class = "FreshestCRL" ->
            Values({FreshestCRL_init(l) : l \in ElementsGiven("FreshestCRL")})
      [] class = "CertificatePolicies" ->
            Values({CertificatePolicies_init(l) : l \in ElementsGiven("CertificatePolicies")})
      [] class = "ExtendedKeyUsage" ->
            Values({ExtendedKeyUsage_init(l) : l \in ElementsGiven("ExtendedKeyUsage")})
      [] class = "PrecertificateSignedCertificateTimestamps" ->
            Values({PrecertificateSignedCertificateTimestamps_init(l) : l \in ElementsGiven("PrecertificateSignedCertificateTimestamps")})
      [] class = "SignedCertificateTimestamps" ->
            Values({SignedCertificateTimestamps_init(l) : l \in ElementsGiven("SignedCertificateTimestamps")})
      [] class = "UnrecognizedExtension" ->
            Values({UnrecognizedExtension_init(o, v) : o \in ObjectIdentifiers, v \in PayloadsGiven})
      [] class = "CRLNumber" -> Values({CRLNumber_init(n) : n \in SkipCertsGiven})
      [] class = "DeltaCRLIndicator" -> Values({DeltaCRLIndicator_init(n) : n \in SkipCertsGiven})
      [] class = "InhibitAnyPolicy" -> Values({InhibitAnyPolicy_init(n) : n \in SkipCertsGiven})
      [] class = "OCSPNoCheck" -> Values({OCSPNoCheck_init})
      [] class = "PrecertPoison" -> Values({PrecertPoison_init})
      [] class = "SubjectAlternativeName" ->
            Values({SubjectAlternativeName_init(l) : l \in AlternativeNamesGiven})
      [] class = "IssuerAlternativeName" ->
            Values({IssuerAlternativeName_init(l) : l \in AlternativeNamesGiven})
      [] class = "CertificateIssuer" ->
            Values({CertificateIssuer_init(l) : l \in AlternativeNamesGiven})
      [] class = "SubjectKeyIdentifier" ->
            Values({SubjectKeyIdentifier_init(d) : d \in DigestsGiven})

\* values that are no extension value at all
ForeignComparands == {None, PyInt(1), PyStr("BasicConstraints")}

\* the classes that hold the same kind of payload as a class
SiblingClasses(class) ==
    UNION {g \in {{"CRLNumber", "DeltaCRLIndicator", "InhibitAnyPolicy"},
                  {"CRLDistributionPoints", "FreshestCRL"},
                  {"AuthorityInformationAccess", "SubjectInformationAccess"},
                  {"PrecertificateSignedCertificateTimestamps", "SignedCertificateTimestamps"},
                  {"SubjectAlternativeName", "IssuerAlternativeName", "CertificateIssuer"},
                  {"OCSPNoCheck", "PrecertPoison"}} : class \in g} \ {class}

\* what an object is compared with: values of its class, values of the classes
\* with the same kind of payload, and values that are no extension value
Comparands(self) ==
    SameClassComparands(self.type)
        \cup UNION {SameClassComparands(c) : c \in SiblingClasses(self.type)}
        \cup ForeignComparands

\* the classes whose values are hashed and compared here: the extension values
\* and DistributionPoint, not the names and items they hold
ComparedClasses ==
    ValueClasses \ {"GeneralNames", "AccessDescription", "PolicyInformation"}

\* the subclasses of ExtensionType among them
ExtensionTypes == ComparedClasses \ {"DistributionPoint"}

\* what the caller's own list holds after the caller emptied it, reversed it
\* or appended its first item again
CallerChanges(extensions) ==
    {<<>>, [k \in 1..Len(extensions) |-> extensions[Len(extensions) + 1 - k]]}
        \cup (IF extensions = <<>> THEN {} ELSE {Append(extensions, extensions[1])})

(***************************************************************************)
(* Actions: one per constructor, method or property.  A run constructs one *)
(* value from arguments drawn from the bounded sets and then calls its     *)
(* methods in any order, any number of times.  A constructor that raises   *)
(* leaves no object behind.                                                *)
(***************************************************************************)
Constructed(r) == IF r.kind = "return" THEN r.value ELSE None

Ended(r) == IF r.kind = "return" THEN Return(None) ELSE r

NewExtensions ==
    /\ call = NoCall
    /\ \E extensions \in SeqsUpTo(ExtensionObjects, MaxExts) :
        /\ made' = [op |-> "Extensions", extensions |-> extensions]
        /\ call' = [op |-> "Extensions", extensions |-> extensions]
        /\ obj' = Constructed(Extensions_init(extensions))
        /\ outcome' = Ended(Extensions_init(extensions))

GetExtensionForOid ==
    /\ obj.type = "Extensions"
    /\ \E oid \in ObjectIdentifiers :
        /\ call' = [op |-> "get_extension_for_oid", oid |-> oid]
        /\ outcome' = get_extension_for_oid(obj, oid)
    /\ UNCHANGED <<made, obj>>

GetExtensionForClass ==
    /\ obj.type = "Extensions"
    /\ \E extclass \in ExtensionClasses :
        /\ call' = [op |-> "get_extension_for_class", extclass |-> extclass]
        /\ outcome' = get_extension_for_class(obj, extclass)
    /\ UNCHANGED <<made, obj>>

NewGeneralNames ==
    /\ call = NoCall
    /\ \E general_names \in SeqsUpTo(NameObjects, MaxNames) :
        /\ made' = [op |-> "GeneralNames", general_names |-> general_names]
        /\ call' = [op |-> "GeneralNames", general_names |-> general_names]
        /\ obj' = Constructed(GeneralNames_init(general_names))
        /\ outcome' = Ended(GeneralNames_init(general_names))

GetValuesForType ==
    /\ obj.type = "GeneralNames"
    /\ \E class \in GeneralNameClasses :
        /\ call' = [op |-> "get_values_for_type", type |-> class]
        /\ outcome' = get_values_for_type(obj, class)
    /\ UNCHANGED <<made, obj>>

NewKeyUsage ==
    /\ call = NoCall
    /\ \E a \in [1..9 -> PyBools] :
        /\ made' = [op |-> "KeyUsage", args |-> a]
        /\ call' = [op |-> "KeyUsage", args |-> a]
        /\ obj' = Constructed(KeyUsage_init(a[1], a[2], a[3], a[4], a[5],
                                            a[6], a[7], a[8], a[9]))
        /\ outcome' = Ended(KeyUsage_init(a[1], a[2], a[3], a[4], a[5],
                                          a[6], a[7], a[8], a[9]))

ReadKeyUsage ==
    /\ obj.type = "KeyUsage"
    /\ \E k \in 1..9 :
        /\ call' = [op |-> "KeyUsage.property", name |-> KeyUsageProperties[k]]
        /\ outcome' = KeyUsage_getattr(obj, KeyUsageProperties[k])
    /\ UNCHANGED <<made, obj>>

NewBasicConstraints ==
    /\ call = NoCall
    /\ \E ca \in CaGiven, path_length \in PathLengthGiven :
        /\ made' = [op |-> "BasicConstraints", ca |-> ca,
                                               path_length |-> path_length]
        /\ call' = [op |-> "BasicConstraints", ca |-> ca,
                                               path_length |-> path_length]
        /\ obj' = Constructed(BasicConstraints_init(ca, path_length))
        /\ outcome' = Ended(BasicConstraints_init(ca, path_length))

ReadBasicConstraints ==
    /\ obj.type = "BasicConstraints"
    /\ \/ /\ call' = [op |-> "BasicConstraints.property", name |-> "ca"]
          /\ outcome' = BasicConstraints_ca(obj)
       \/ /\ call' = [op |-> "BasicConstraints.property", name |-> "path_length"]
          /\ outcome' = BasicConstraints_path_length(obj)
    /\ UNCHANGED <<made, obj>>

NewDistributionPoint ==
    /\ call = NoCall
    /\ \E full_name \in PointNamesGiven, relative_name \in RelativeNameGiven,
          reasons \in ReasonsGiven, crl_issuer \in PointNamesGiven :
        /\ made' = [op |-> "DistributionPoint", full_name |-> full_name,
                    relative_name |-> relative_name, reasons |-> reasons,
                    crl_issuer |-> crl_issuer]
        /\ call' = [op |-> "DistributionPoint", full_name |-> full_name,
                    relative_name |-> relative_name, reasons |-> reasons,
                    crl_issuer |-> crl_issuer]
        /\ obj' = Constructed(DistributionPoint_init(full_name, relative_name,
                                                     reasons, crl_issuer))
        /\ outcome' = Ended(DistributionPoint_init(full_name, relative_name,
                                                   reasons, crl_issuer))

NewIssuingDistributionPoint ==
    /\ call = NoCall
    /\ \E full_name \in PointNamesGiven, relative_name \in RelativeNameGiven,
          only_some_reasons \in ReasonsGiven, c \in [1..4 -> ConstraintGiven] :
        /\ made' = [op |-> "IssuingDistributionPoint", full_name |-> full_name,
                    relative_name |-> relative_name,
                    only_contains_user_certs |-> c[1],
                    only_contains_ca_certs |-> c[2],
                    only_some_reasons |-> only_some_reasons,
                    indirect_crl |-> c[3],
                    only_contains_attribute_certs |-> c[4]]
        /\ call' = [op |-> "IssuingDistributionPoint", full_name |-> full_name,
                    relative_name |-> relative_name,
                    only_contains_user_certs |-> c[1],
                    only_contains_ca_certs |-> c[2],
                    only_some_reasons |-> only_some_reasons,
                    indirect_crl |-> c[3],
                    only_contains_attribute_certs |-> c[4]]
        /\ obj' = Constructed(IssuingDistributionPoint_init(full_name,
                      relative_name, c[1], c[2], only_some_reasons, c[3], c[4]))
        /\ outcome' = Ended(IssuingDistributionPoint_init(full_name,
                          relative_name, c[1], c[2], only_some_reasons, c[3], c[4]))

NewNameConstraints ==
    /\ call = NoCall
    /\ \E permitted_subtrees \in SubtreesGiven, excluded_subtrees \in SubtreesGiven :
        /\ made' = [op |-> "NameConstraints",
                    permitted_subtrees |-> permitted_subtrees,
                    excluded_subtrees |-> excluded_subtrees]
        /\ call' = [op |-> "NameConstraints",
                    permitted_subtrees |-> permitted_subtrees,
                    excluded_subtrees |-> excluded_subtrees]
        /\ obj' = Constructed(NameConstraints_init(permitted_subtrees, excluded_subtrees))
        /\ outcome' = Ended(NameConstraints_init(permitted_subtrees, excluded_subtrees))

NewAuthorityKeyIdentifier ==
    /\ call = NoCall
    /\ \E key_identifier \in KeyIdentifierGiven, authority_cert_issuer \in PointNamesGiven,
          authority_cert_serial_number \in SerialNumberGiven :
        /\ made' = [op |-> "AuthorityKeyIdentifier",
                    key_identifier |-> key_identifier,
                    authority_cert_issuer |-> authority_cert_issuer,
                    authority_cert_serial_number |-> authority_cert_serial_number]
        /\ call' = [op |-> "AuthorityKeyIdentifier",
                    key_identifier |-> key_identifier,
                    authority_cert_issuer |-> authority_cert_issuer,
                    authority_cert_serial_number |-> authority_cert_serial_number]
        /\ obj' = Constructed(AuthorityKeyIdentifier_init(key_identifier, authority_cert_issuer, authority_cert_serial_number))
        /\ outcome' = Ended(AuthorityKeyIdentifier_init(key_identifier, authority_cert_issuer, authority_cert_serial_number))

NewPolicyConstraints ==
    /\ call = NoCall
    /\ \E require_explicit_policy \in SkipCertsGiven, inhibit_policy_mapping \in SkipCertsGiven :
        /\ made' = [op |-> "PolicyConstraints",
                    require_explicit_policy |-> require_explicit_policy,
                    inhibit_policy_mapping |-> inhibit_policy_mapping]
        /\ call' = [op |-> "PolicyConstraints",
                    require_explicit_policy |-> require_explicit_policy,
                    inhibit_policy_mapping |-> inhibit_policy_mapping]
        /\ obj' = Constructed(PolicyConstraints_init(require_explicit_policy, inhibit_policy_mapping))
        /\ outcome' = Ended(PolicyConstraints_init(require_explicit_policy, inhibit_policy_mapping))

NewTLSFeature ==
    /\ call = NoCall
    /\ \E features \in FeaturesGiven :
        /\ made' = [op |-> "TLSFeature", features |-> features]
        /\ call' = [op |-> "TLSFeature", features |-> features]
        /\ obj' = Constructed(TLSFeature_init(features))
        /\ outcome' = Ended(TLSFeature_init(features))

Hash ==
    /\ obj.type \in ComparedClasses
    /\ call' = [op |-> "__hash__"]
    /\ outcome' = hash(obj)
    /\ UNCHANGED <<made, obj>>

Compare ==
    /\ obj.type \in ComparedClasses
    /\ \E other \in Comparands(obj) :
        /\ call' = [op |-> "__eq__", other |-> other]
        /\ outcome' = Return(PyBool(PyEq(obj, other)))
    /\ UNCHANGED <<made, obj>>

NewAuthorityInformationAccess ==
    /\ call = NoCall
    /\ \E descriptions \in ElementsGiven("AuthorityInformationAccess") :
        /\ made' = [op |-> "AuthorityInformationAccess", descriptions |-> descriptions]
        /\ call' = [op |-> "AuthorityInformationAccess", descriptions |-> descriptions]
        /\ obj' = Constructed(AuthorityInformationAccess_init(descriptions))
        /\ outcome' = Ended(AuthorityInformationAccess_init(descriptions))

NewSubjectInformationAccess ==
    /\ call = NoCall
    /\ \E descriptions \in ElementsGiven("SubjectInformationAccess") :
        /\ made' = [op |-> "SubjectInformationAccess", descriptions |-> descriptions]
        /\ call' = [op |-> "SubjectInformationAccess", descriptions |-> descriptions]
        /\ obj' = Constructed(SubjectInformationAccess_init(descriptions))
        /\ outcome' = Ended(SubjectInformationAccess_init(descriptions))

NewCRLDistributionPoints ==
    /\ call = NoCall
    /\ \E distribution_points \in ElementsGiven("CRLDistributionPoints") :
        /\ made' = [op |-> "CRLDistributionPoints", distribution_points |-> distribution_points]
        /\ call' = [op |-> "CRLDistributionPoints", distribution_points |-> distribution_points]
        /\ obj' = Constructed(CRLDistributionPoints_init(distribution_points))
        /\ outcome' = Ended(CRLDistributionPoints_init(distribution_points))

NewFreshestCRL ==
    /\ call = NoCall
    /\ \E distribution_points \in ElementsGiven("FreshestCRL") :
        /\ made' = [op |-> "FreshestCRL", distribution_points |-> distribution_points]
        /\ call' = [op |-> "FreshestCRL", distribution_points |-> distribution_points]
        /\ obj' = Constructed(FreshestCRL_init(distribution_points))
        /\ outcome' = Ended(FreshestCRL_init(distribution_points))

NewCertificatePolicies ==
    /\ call = NoCall
    /\ \E policies \in ElementsGiven("CertificatePolicies") :
        /\ made' = [op |-> "CertificatePolicies", policies |-> policies]
        /\ call' = [op |-> "CertificatePolicies", policies |-> policies]
        /\ obj' = Constructed(CertificatePolicies_init(policies))
        /\ outcome' = Ended(CertificatePolicies_init(policies))

NewExtendedKeyUsage ==
    /\ call = NoCall
    /\ \E usages \in ElementsGiven("ExtendedKeyUsage") :
        /\ made' = [op |-> "ExtendedKeyUsage", usages |-> usages]
        /\ call' = [op |-> "ExtendedKeyUsage", usages |-> usages]
        /\ obj' = Constructed(ExtendedKeyUsage_init(usages))
        /\ outcome' = Ended(ExtendedKeyUsage_init(usages))

NewPrecertificateSignedCertificateTimestamps ==
    /\ call = NoCall
    /\ \E signed_certificate_timestamps \in ElementsGiven("PrecertificateSignedCertificateTimestamps") :
        /\ made' = [op |-> "PrecertificateSignedCertificateTimestamps", signed_certificate_timestamps |-> signed_certificate_timestamps]
        /\ call' = [op |-> "PrecertificateSignedCertificateTimestamps", signed_certificate_timestamps |-> signed_certificate_timestamps]
        /\ obj' = Constructed(PrecertificateSignedCertificateTimestamps_init(signed_certificate_timestamps))
        /\ outcome' = Ended(PrecertificateSignedCertificateTimestamps_init(signed_certificate_timestamps))

NewSignedCertificateTimestamps ==
    /\ call = NoCall
    /\ \E signed_certificate_timestamps \in ElementsGiven("SignedCertificateTimestamps") :
        /\ made' = [op |-> "SignedCertificateTimestamps", signed_certificate_timestamps |-> signed_certificate_timestamps]
        /\ call' = [op |-> "SignedCertificateTimestamps", signed_certificate_timestamps |-> signed_certificate_timestamps]
        /\ obj' = Constructed(SignedCertificateTimestamps_init(signed_certificate_timestamps))
        /\ outcome' = Ended(SignedCertificateTimestamps_init(signed_certificate_timestamps))

Length ==
    /\ obj.type \in SequenceClasses
    /\ call' = [op |-> "__len__"]
    /\ outcome' = len_method(obj, SequenceFieldName(obj.type))
    /\ UNCHANGED <<made, obj>>

Iterate ==
    /\ obj.type \in SequenceClasses
    /\ call' = [op |-> "__iter__"]
    /\ outcome' = iter_method(obj, SequenceFieldName(obj.type))
    /\ UNCHANGED <<made, obj>>

GetItem ==
    /\ obj.type \in SequenceClasses
    /\ \E i \in -(Len(getattr(obj, SequenceFieldName(obj.type)).items) + 1)
                    ..Len(getattr(obj, SequenceFieldName(obj.type)).items) :
        /\ call' = [op |-> "__getitem__", idx |-> PyInt(i)]
        /\ outcome' = getitem_method(obj, SequenceFieldName(obj.type), PyInt(i))
    /\ UNCHANGED <<made, obj>>

NewUnrecognizedExtension ==
    /\ call = NoCall
    /\ \E oid \in ObjectIdentifiers \cup {PyStr("1.2.3.4")}, value \in PayloadsGiven :
        /\ made' = [op |-> "UnrecognizedExtension", oid |-> oid, value |-> value]
        /\ call' = [op |-> "UnrecognizedExtension", oid |-> oid, value |-> value]
        /\ obj' = Constructed(UnrecognizedExtension_init(oid, value))
        /\ outcome' = Ended(UnrecognizedExtension_init(oid, value))

ReadUnrecognizedExtension ==
    /\ obj.type = "UnrecognizedExtension"
    /\ \/ /\ call' = [op |-> "oid"]
          /\ outcome' = UnrecognizedExtension_oid(obj)
       \/ /\ call' = [op |-> "value"]
          /\ outcome' = UnrecognizedExtension_value(obj)
    /\ UNCHANGED <<made, obj>>

PublicBytes ==
    /\ obj.type \in ExtensionTypes
    /\ call' = [op |-> "public_bytes"]
    /\ outcome' = public_bytes(obj)
    /\ UNCHANGED <<made, obj>>

NewCRLNumber ==
    /\ call = NoCall
    /\ \E crl_number \in SkipCertsGiven :
        /\ made' = [op |-> "CRLNumber", crl_number |-> crl_number]
        /\ call' = [op |-> "CRLNumber", crl_number |-> crl_number]
        /\ obj' = Constructed(CRLNumber_init(crl_number))
        /\ outcome' = Ended(CRLNumber_init(crl_number))

NewDeltaCRLIndicator ==
    /\ call = NoCall
    /\ \E crl_number \in SkipCertsGiven :
        /\ made' = [op |-> "DeltaCRLIndicator", crl_number |-> crl_number]
        /\ call' = [op |-> "DeltaCRLIndicator", crl_number |-> crl_number]
        /\ obj' = Constructed(DeltaCRLIndicator_init(crl_number))
        /\ outcome' = Ended(DeltaCRLIndicator_init(crl_number))

NewInhibitAnyPolicy ==
    /\ call = NoCall
    /\ \E skip_certs \in SkipCertsGiven :
        /\ made' = [op |-> "InhibitAnyPolicy", skip_certs |-> skip_certs]
        /\ call' = [op |-> "InhibitAnyPolicy", skip_certs |-> skip_certs]
        /\ obj' = Constructed(InhibitAnyPolicy_init(skip_certs))
        /\ outcome' = Ended(InhibitAnyPolicy_init(skip_certs))

NewOCSPNoCheck ==
    /\ call = NoCall
    /\ made' = [op |-> "OCSPNoCheck"]
    /\ call' = [op |-> "OCSPNoCheck"]
    /\ obj' = Constructed(OCSPNoCheck_init)
    /\ outcome' = Ended(OCSPNoCheck_init)

NewPrecertPoison ==
    /\ call = NoCall
    /\ made' = [op |-> "PrecertPoison"]
    /\ call' = [op |-> "PrecertPoison"]
    /\ obj' = Constructed(PrecertPoison_init)
    /\ outcome' = Ended(PrecertPoison_init)

NewSubjectAlternativeName ==
    /\ call = NoCall
    /\ \E general_names \in AlternativeNamesGiven :
        /\ made' = [op |-> "SubjectAlternativeName", general_names |-> general_names]
        /\ call' = [op |-> "SubjectAlternativeName", general_names |-> general_names]
        /\ obj' = Constructed(SubjectAlternativeName_init(general_names))
        /\ outcome' = Ended(SubjectAlternativeName_init(general_names))

NewIssuerAlternativeName ==
    /\ call = NoCall
    /\ \E general_names \in AlternativeNamesGiven :
        /\ made' = [op |-> "IssuerAlternativeName", general_names |-> general_names]
        /\ call' = [op |-> "IssuerAlternativeName", general_names |-> general_names]
        /\ obj' = Constructed(IssuerAlternativeName_init(general_names))
        /\ outcome' = Ended(IssuerAlternativeName_init(general_names))

NewCertificateIssuer ==
    /\ call = NoCall
    /\ \E general_names \in AlternativeNamesGiven :
        /\ made' = [op |-> "CertificateIssuer", general_names |-> general_names]
        /\ call' = [op |-> "CertificateIssuer", general_names |-> general_names]
        /\ obj' = Constructed(CertificateIssuer_init(general_names))
        /\ outcome' = Ended(CertificateIssuer_init(general_names))

NewSubjectKeyIdentifier ==
    /\ call = NoCall
    /\ \E digest \in DigestsGiven :
        /\ made' = [op |-> "SubjectKeyIdentifier", digest |-> digest]
        /\ call' = [op |-> "SubjectKeyIdentifier", digest |-> digest]
        /\ obj' = Constructed(SubjectKeyIdentifier_init(digest))
        /\ outcome' = Ended(SubjectKeyIdentifier_init(digest))

SubjectKeyIdentifierFromPublicKey ==
    /\ call = NoCall
    /\ \E public_key \in PublicKeys :
        /\ made' = [op |-> "SubjectKeyIdentifier.from_public_key", public_key |-> public_key]
        /\ call' = [op |-> "SubjectKeyIdentifier.from_public_key", public_key |-> public_key]
        /\ obj' = Constructed(SubjectKeyIdentifier_from_public_key(public_key))
        /\ outcome' = Ended(SubjectKeyIdentifier_from_public_key(public_key))

AuthorityKeyIdentifierFromIssuerPublicKey ==
    /\ call = NoCall
    /\ \E public_key \in PublicKeys :
        /\ made' = [op |-> "AuthorityKeyIdentifier.from_issuer_public_key",
                    public_key |-> public_key]
        /\ call' = [op |-> "AuthorityKeyIdentifier.from_issuer_public_key",
                    public_key |-> public_key]
        /\ obj' = Constructed(AuthorityKeyIdentifier_from_issuer_public_key(public_key))
        /\ outcome' = Ended(AuthorityKeyIdentifier_from_issuer_public_key(public_key))

AuthorityKeyIdentifierFromIssuerSubjectKeyIdentifier ==
    /\ call = NoCall
    /\ \E ski \in SameClassComparands("SubjectKeyIdentifier") :
        /\ made' = [op |-> "AuthorityKeyIdentifier.from_issuer_subject_key_identifier",
                    ski |-> ski]
        /\ call' = [op |-> "AuthorityKeyIdentifier.from_issuer_subject_key_identifier",
                    ski |-> ski]
        /\ obj' = Constructed(AuthorityKeyIdentifier_from_issuer_subject_key_identifier(ski))
        /\ outcome' = Ended(AuthorityKeyIdentifier_from_issuer_subject_key_identifier(ski))

NewExtension ==
    /\ call = NoCall
    /\ \E oid \in ObjectIdentifiers \cup {PyStr("2.5.29.19")},
          critical \in {PyBool(TRUE), PyBool(FALSE), PyInt(1)},
          value \in WrappedValues :
        /\ made' = [op |-> "Extension", oid |-> oid, critical |-> critical, value |-> value]
        /\ call' = [op |-> "Extension", oid |-> oid, critical |-> critical, value |-> value]
        /\ obj' = Constructed(Extension_init(oid, critical, value))
        /\ outcome' = Ended(Extension_init(oid, critical, value))

\* the caller empties, reverses or extends the list it built the container
\* from; the container holds its own list(extensions) and is not touched
CallerChangesSequence ==
    /\ obj.type = "Extensions"
    /\ \E extensions \in CallerChanges(made.extensions) :
        /\ call' = [op |-> "caller_changes_sequence", extensions |-> extensions]
        /\ outcome' = Return(None)
    /\ UNCHANGED <<made, obj>>

Init ==
    /\ made = NoCall
    /\ obj = None
    /\ call = NoCall
    /\ outcome = Return(None)

Next ==
    \/ NewExtensions
    \/ GetExtensionForOid
    \/ GetExtensionForClass
    \/ NewGeneralNames
    \/ GetValuesForType
    \/ NewKeyUsage
    \/ ReadKeyUsage
    \/ NewBasicConstraints
    \/ ReadBasicConstraints
    \/ NewDistributionPoint
    \/ NewIssuingDistributionPoint
    \/ NewNameConstraints
    \/ NewAuthorityKeyIdentifier
    \/ NewPolicyConstraints
    \/ NewTLSFeature
    \/ Hash
    \/ Compare
    \/ NewAuthorityInformationAccess
    \/ NewSubjectInformationAccess
    \/ NewCRLDistributionPoints
    \/ NewFreshestCRL
    \/ NewCertificatePolicies
    \/ NewExtendedKeyUsage
    \/ NewPrecertificateSignedCertificateTimestamps
    \/ NewSignedCertificateTimestamps
    \/ Length
    \/ Iterate
    \/ GetItem
    \/ NewUnrecognizedExtension
    \/ ReadUnrecognizedExtension
    \/ PublicBytes
    \/ NewCRLNumber
    \/ NewDeltaCRLIndicator
    \/ NewInhibitAnyPolicy
    \/ NewOCSPNoCheck
    \/ NewPrecertPoison
    \/ NewSubjectAlternativeName
    \/ NewIssuerAlternativeName
    \/ NewCertificateIssuer
    \/ NewSubjectKeyIdentifier
    \/ SubjectKeyIdentifierFromPublicKey
    \/ AuthorityKeyIdentifierFromIssuerPublicKey
    \/ AuthorityKeyIdentifierFromIssuerSubjectKeyIdentifier
    \/ NewExtension
    \/ CallerChangesSequence

Spec == Init /\ [][Next]_vars

(***************************************************************************)
(* Properties of the Extensions container.                                 *)
(***************************************************************************)
Min(S) == CHOOSE m \in S : \A n \in S : m <= n

\* the positions whose wrapper carries the identifier
WithOid(exts, oid) == {i \in 1..Len(exts) : exts[i]._oid = oid}

\* the positions whose value is of the class
WithClass(exts, extclass) == {i \in 1..Len(exts) : exts[i]._value.type = extclass}

\* C1: when some contained extension carries the identifier asked for,
\* get_extension_for_oid returns the extension at the smallest such position,
\* also when several extensions carry it.
C1_FirstMatchForOid ==
    (call.op = "get_extension_for_oid"
        /\ WithOid(obj._extensions, call.oid) # {}) =>
            LET m == Min(WithOid(obj._extensions, call.oid))
            IN  outcome = ReturnItem(obj._extensions[m], m)

\* two different extensions carry the identifier and the first was returned
C1_Witness ==
    /\ call.op = "get_extension_for_oid"
    /\ WithOid(obj._extensions, call.oid) = {1, 2}
    /\ obj._extensions[1] # obj._extensions[2]
    /\ outcome = ReturnItem(obj._extensions[1], 1)

\* C2: when no contained extension carries the identifier asked for (the empty
\* and the singleton container included), get_extension_for_oid raises
\* ExtensionNotFound whose oid is the identifier asked for; nothing is returned.
C2_NotFoundForOid ==
    (call.op = "get_extension_for_oid"
        /\ WithOid(obj._extensions, call.oid) = {}) =>
            /\ outcome.kind = "raise"
            /\ outcome.exc = "ExtensionNotFound"
            /\ outcome.oid = call.oid

\* a singleton container asked for an identifier its extension does not carry
C2_Witness ==
    /\ call.op = "get_extension_for_oid"
    /\ Len(obj._extensions) = 1
    /\ obj._extensions[1]._oid # call.oid
    /\ outcome = ExtensionNotFound(call.oid)

\* C3: get_extension_for_class(UnrecognizedExtension) raises TypeError whatever
\* the container holds; it neither returns nor raises ExtensionNotFound.
C3_UnrecognizedIsUsageError ==
    (call.op = "get_extension_for_class"
        /\ call.extclass = "UnrecognizedExtension") =>
            outcome = Raise("TypeError")

\* the container holds an UnrecognizedExtension and the lookup raised TypeError
C3_Witness ==
    /\ call.op = "get_extension_for_class"
    /\ call.extclass = "UnrecognizedExtension"
    /\ WithClass(obj._extensions, "UnrecognizedExtension") # {}
    /\ outcome = Raise("TypeError")

\* C4: for a class other than UnrecognizedExtension, get_extension_for_class
\* returns the extension at the smallest position whose value is of the class,
\* whatever identifiers the wrappers carry.
C4_FirstMatchForClass ==
    (call.op = "get_extension_for_class"
        /\ call.extclass # "UnrecognizedExtension"
        /\ WithClass(obj._extensions, call.extclass) # {}) =>
            LET m == Min(WithClass(obj._extensions, call.extclass))
            IN  outcome = ReturnItem(obj._extensions[m], m)

\* the first wrapper carries the class's oid around a value of another class, the
\* second carries another oid around a value of the class: the second is returned
C4_Witness ==
    /\ call.op = "get_extension_for_class"
    /\ call.extclass # "UnrecognizedExtension"
    /\ Len(obj._extensions) = 2
    /\ obj._extensions[1]._oid = ClassOid(call.extclass)
    /\ obj._extensions[1]._value.type # call.extclass
    /\ obj._extensions[2]._oid # ClassOid(call.extclass)
    /\ obj._extensions[2]._value.type = call.extclass
    /\ outcome = ReturnItem(obj._extensions[2], 2)

(***************************************************************************)
(* Properties of GeneralNames.get_values_for_type.                         *)
(***************************************************************************)
\* the positions of the names of the variant
OfVariant(names, class) == {i \in 1..Len(names) : names[i].type = class}

\* the k-th smallest member of a set of positions
Nth(S, k) == CHOOSE i \in S : Cardinality({j \in S : j <= i}) = k

\* C5: for a variant other than OtherName, get_values_for_type returns the
\* payloads of the names of that variant, one per matching name and in their
\* original order; with no matching name it returns the empty list and does
\* not raise.
C5_ValuesForType ==
    (call.op = "get_values_for_type" /\ call.type # "OtherName") =>
        LET names == obj._general_names
            at == OfVariant(names, call.type)
        IN  /\ outcome.kind = "return"
            /\ Len(outcome.value) = Cardinality(at)
            /\ \A k \in 1..Cardinality(at) :
                   outcome.value[k] = names[Nth(at, k)]._value

\* two names of the variant with different payloads around a name of another
\* variant: the two payloads are returned in the order of the names
C5_Witness ==
    /\ call.op = "get_values_for_type"
    /\ call.type # "OtherName"
    /\ Len(obj._general_names) = 3
    /\ OfVariant(obj._general_names, call.type) = {1, 3}
    /\ obj._general_names[1]._value # obj._general_names[3]._value
    /\ obj._general_names[2]._value = obj._general_names[1]._value
    /\ outcome = Return(<<obj._general_names[1]._value, obj._general_names[3]._value>>)

\* C6: get_values_for_type(OtherName) returns the matching OtherName names
\* themselves, type_id and bytes together, in their original order.
C6_OtherNamesThemselves ==
    (call.op = "get_values_for_type" /\ call.type = "OtherName") =>
        LET names == obj._general_names
            at == OfVariant(names, "OtherName")
        IN  /\ outcome.kind = "return"
            /\ Len(outcome.value) = Cardinality(at)
            /\ \A k \in 1..Cardinality(at) :
                   outcome.value[k] = names[Nth(at, k)]

\* two OtherNames with the same bytes under different type_ids, after a name of
\* another variant: both are returned whole, in order
C6_Witness ==
    /\ call.op = "get_values_for_type"
    /\ call.type = "OtherName"
    /\ OfVariant(obj._general_names, "OtherName") = {2, 3}
    /\ obj._general_names[2]._value = obj._general_names[3]._value
    /\ obj._general_names[2]._type_id # obj._general_names[3]._type_id
    /\ outcome = Return(<<obj._general_names[2], obj._general_names[3]>>)

(***************************************************************************)
(* Properties of KeyUsage.                                                 *)
(***************************************************************************)
\* the position of a property among the constructor's arguments
ArgOf(name) == CHOOSE k \in 1..9 : KeyUsageProperties[k] = name

\* C7: KeyUsage() fails when key_agreement is false and encipher_only or
\* decipher_only is true, and succeeds for every other combination of the nine
\* flags; so a KeyUsage with key_agreement false holds both flags as false.
C7_KeyUsageConstruction ==
    /\ made.op = "KeyUsage" =>
           LET refused == /\ made.args[5] = PyBool(FALSE)
                          /\ \/ made.args[8] = PyBool(TRUE)
                             \/ made.args[9] = PyBool(TRUE)
           IN  /\ refused => obj = None
               /\ ~refused => obj.type = "KeyUsage"
               /\ call = made => (outcome.kind = "raise" <=> refused)
    /\ (obj.type = "KeyUsage" /\ obj._key_agreement = PyBool(FALSE)) =>
           /\ obj._encipher_only = PyBool(FALSE)
           /\ obj._decipher_only = PyBool(FALSE)

\* the constructor was given decipher_only alone without key_agreement and raised
C7_Witness ==
    /\ call.op = "KeyUsage"
    /\ call.args[5] = PyBool(FALSE)
    /\ call.args[8] = PyBool(FALSE)
    /\ call.args[9] = PyBool(TRUE)
    /\ outcome = Raise("ValueError")
    /\ obj = None

\* C8: on a constructed KeyUsage, reading encipher_only or decipher_only fails
\* (the code raises ValueError) when key_agreement is false and returns the
\* value given at construction when it is true; the other seven properties
\* always return the value given at construction.
C8_KeyUsageProperties ==
    call.op = "KeyUsage.property" =>
        IF call.name \in {"encipher_only", "decipher_only"}
              /\ made.args[5] = PyBool(FALSE)
        THEN outcome = Raise("ValueError")
        ELSE outcome = Return(made.args[ArgOf(call.name)])

\* encipher_only read on a KeyUsage built without key_agreement
C8_Witness ==
    /\ call.op = "KeyUsage.property"
    /\ call.name = "encipher_only"
    /\ made.args[5] = PyBool(FALSE)
    /\ obj.type = "KeyUsage"
    /\ outcome = Raise("ValueError")

(***************************************************************************)
(* Properties of BasicConstraints.                                         *)
(***************************************************************************)
\* C9: a constructed BasicConstraints has a path_length only if ca is true, and
\* the path_length it has is a non-negative integer; BasicConstraints() fails
\* when given a path_length with ca false, and when given a negative one.
C9_BasicConstraintsInvariant ==
    /\ obj.type = "BasicConstraints" =>
           (obj._path_length # None =>
               /\ obj._ca = PyBool(TRUE)
               /\ isinstance(obj._path_length, "int")
               /\ IntValue(obj._path_length) >= 0)
    /\ (/\ made.op = "BasicConstraints"
        /\ made.path_length # None
        /\ \/ made.ca = PyBool(FALSE)
           \/ /\ isinstance(made.path_length, "int")
              /\ IntValue(made.path_length) < 0) =>
           /\ obj = None
           /\ call = made => outcome.kind = "raise"

\* ca true with a negative path_length: the constructor raised
C9_Witness ==
    /\ call.op = "BasicConstraints"
    /\ call.ca = PyBool(TRUE)
    /\ call.path_length = PyInt(-1)
    /\ outcome.kind = "raise"
    /\ obj = None

(***************************************************************************)
(* Properties of DistributionPoint.                                        *)
(***************************************************************************)
\* C10: no constructed DistributionPoint has both full_name and relative_name
\* present (not None); DistributionPoint() fails when given both, whatever the
\* full_name given, an empty list included.
C10_FullNameXorRelativeName ==
    /\ obj.type = "DistributionPoint" =>
           ~(obj._full_name # None /\ obj._relative_name # None)
    /\ (/\ made.op = "DistributionPoint"
        /\ made.full_name # None
        /\ made.relative_name # None) => obj = None

(***************************************************************************)
(* Properties of IssuingDistributionPoint.                                 *)
(***************************************************************************)
\* C11: no constructed IssuingDistributionPoint has both full_name and
\* relative_name present; IssuingDistributionPoint() fails when given both.
C11_IssuingFullNameXorRelativeName ==
    /\ obj.type = "IssuingDistributionPoint" =>
           ~(obj._full_name # None /\ obj._relative_name # None)
    /\ (/\ made.op = "IssuingDistributionPoint"
        /\ made.full_name # None
        /\ made.relative_name # None) => obj = None

(***************************************************************************)
(* Properties of the reason sets of DistributionPoint and                  *)
(* IssuingDistributionPoint.                                               *)
(***************************************************************************)
\* a frozenset that holds unspecified or remove_from_crl
IsRefusedReasonSet(reasons) ==
    /\ reasons.type = "frozenset"
    /\ \/ ReasonFlag("unspecified") \in reasons.items
       \/ ReasonFlag("remove_from_crl") \in reasons.items

\* C12: the reason set a constructed DistributionPoint (reasons) or
\* IssuingDistributionPoint (only_some_reasons) stores holds neither
\* unspecified nor remove_from_crl; construction fails when given a reason set
\* that holds either, whatever the other arguments are.
C12_NoUnspecifiedNoRemoveFromCrl ==
    /\ obj.type = "DistributionPoint" => ~IsRefusedReasonSet(obj._reasons)
    /\ obj.type = "IssuingDistributionPoint" =>
           ~IsRefusedReasonSet(obj._only_some_reasons)
    /\ (made.op = "DistributionPoint" /\ IsRefusedReasonSet(made.reasons)) =>
           /\ obj = None
           /\ call = made => outcome.kind = "raise"
    /\ (/\ made.op = "IssuingDistributionPoint"
        /\ IsRefusedReasonSet(made.only_some_reasons)) =>
           /\ obj = None
           /\ call = made => outcome.kind = "raise"

\* an IssuingDistributionPoint with one flag true, no names and the reasons
\* {key_compromise, remove_from_crl}: the constructor raised ValueError
C12_Witness ==
    /\ call.op = "IssuingDistributionPoint"
    /\ call.only_some_reasons =
           FrozenSet({ReasonFlag("key_compromise"), ReasonFlag("remove_from_crl")})
    /\ call.full_name = None
    /\ call.relative_name = None
    /\ call.indirect_crl = PyBool(TRUE)
    /\ call.only_contains_user_certs = PyBool(FALSE)
    /\ call.only_contains_ca_certs = PyBool(FALSE)
    /\ call.only_contains_attribute_certs = PyBool(FALSE)
    /\ outcome = Raise("ValueError")
    /\ obj = None

\* C13: a constructed DistributionPoint whose reasons is set (not None) has at
\* least one of crl_issuer, full_name, relative_name set; and DistributionPoint()
\* with reasons set succeeds whenever at least one of the three is set (not
\* None) and the other rules hold, also when the one that is set is an empty
\* list.
C13_ReasonsNeedAName ==
    /\ (obj.type = "DistributionPoint" /\ obj._reasons # None) =>
           \/ obj._crl_issuer # None
           \/ obj._full_name # None
           \/ obj._relative_name # None
    /\ (/\ made.op = "DistributionPoint"
        /\ made.reasons.type = "frozenset"
        /\ \A x \in made.reasons.items : isinstance(x, "ReasonFlags")
        /\ ~IsRefusedReasonSet(made.reasons)
        /\ ~(made.full_name # None /\ made.relative_name # None)
        /\ made.full_name # None =>
               AllInstances(made.full_name.items, "GeneralName")
        /\ made.crl_issuer # None =>
               AllInstances(made.crl_issuer.items, "GeneralName")
        /\ made.relative_name # None =>
               isinstance(made.relative_name, "RelativeDistinguishedName")
        /\ \/ made.crl_issuer # None
           \/ made.full_name # None
           \/ made.relative_name # None) => obj.type = "DistributionPoint"

(***************************************************************************)
(* Properties of the flags of IssuingDistributionPoint.                    *)
(***************************************************************************)
\* the four flags of a call or of an object, in the order of crl_constraints
GivenConstraints(c) ==
    <<c.only_contains_user_certs, c.only_contains_ca_certs, c.indirect_crl,
      c.only_contains_attribute_certs>>

StoredConstraints(o) ==
    <<o._only_contains_user_certs, o._only_contains_ca_certs, o._indirect_crl,
      o._only_contains_attribute_certs>>

\* how many of the flags are True
TrueCount(flags) == Cardinality({k \in 1..Len(flags) : flags[k] = PyBool(TRUE)})

\* C14: a constructed IssuingDistributionPoint has at most one of
\* only_contains_user_certs, only_contains_ca_certs, indirect_crl and
\* only_contains_attribute_certs true; construction with two or more of them
\* true fails, whatever names and reasons are given.
C14_AtMostOneConstraint ==
    /\ obj.type = "IssuingDistributionPoint" =>
           TrueCount(StoredConstraints(obj)) <= 1
    /\ (/\ made.op = "IssuingDistributionPoint"
        /\ TrueCount(GivenConstraints(made)) >= 2) =>
           /\ obj = None
           /\ call = made => outcome.kind = "raise"

\* two flags true beside a full_name and valid reasons: ValueError
C14_Witness ==
    /\ call.op = "IssuingDistributionPoint"
    /\ GivenConstraints(call) =
           <<PyBool(TRUE), PyBool(FALSE), PyBool(TRUE), PyBool(FALSE)>>
    /\ Truthy(call.full_name)
    /\ call.only_some_reasons = FrozenSet({ReasonFlag("key_compromise")})
    /\ outcome = Raise("ValueError")
    /\ obj = None

\* C15: IssuingDistributionPoint() fails as an empty extension (ValueError)
\* when the four flags are false and full_name, relative_name and
\* only_some_reasons are each absent or empty; it succeeds when exactly one
\* flag is true and nothing else is given; no constructed
\* IssuingDistributionPoint is entirely empty.
C15_NoEmptyIssuingDistributionPoint ==
    /\ (/\ made.op = "IssuingDistributionPoint"
        /\ TrueCount(GivenConstraints(made)) = 0
        /\ \A k \in 1..4 : GivenConstraints(made)[k] = PyBool(FALSE)
        /\ made.full_name \in {None, PyList(<<>>)}
        /\ made.relative_name = None
        /\ made.only_some_reasons \in {None, FrozenSet({})}) =>
           /\ obj = None
           /\ call = made => outcome = Raise("ValueError")
    /\ (/\ made.op = "IssuingDistributionPoint"
        /\ TrueCount(GivenConstraints(made)) = 1
        /\ \A k \in 1..4 : GivenConstraints(made)[k] \in PyBools
        /\ made.full_name = None
        /\ made.relative_name = None
        /\ made.only_some_reasons = None) =>
           /\ obj.type = "IssuingDistributionPoint"
           /\ StoredConstraints(obj) = GivenConstraints(made)
    /\ obj.type = "IssuingDistributionPoint" =>
           \/ TrueCount(StoredConstraints(obj)) >= 1
           \/ obj._full_name \notin {None, PyList(<<>>)}
           \/ obj._relative_name # None
           \/ obj._only_some_reasons \notin {None, FrozenSet({})}

\* the four flags false, an empty full_name and an empty reason set: ValueError
C15_Witness ==
    /\ call.op = "IssuingDistributionPoint"
    /\ \A k \in 1..4 : GivenConstraints(call)[k] = PyBool(FALSE)
    /\ call.full_name = PyList(<<>>)
    /\ call.relative_name = None
    /\ call.only_some_reasons = FrozenSet({})
    /\ outcome = Raise("ValueError")
    /\ obj = None

(***************************************************************************)
(* Properties of NameConstraints.                                          *)
(***************************************************************************)
\* C16: a constructed NameConstraints has at least one of permitted_subtrees
\* and excluded_subtrees present, and each present one is a non-empty list;
\* construction with both absent, or with either one empty, fails.
C16_SubtreesPresentAndNonEmpty ==
    /\ obj.type = "NameConstraints" =>
           /\ obj._permitted_subtrees # None \/ obj._excluded_subtrees # None
           /\ \A t \in {obj._permitted_subtrees, obj._excluded_subtrees} :
                  t # None => t.type = "list" /\ Len(t.items) > 0
    /\ (/\ made.op = "NameConstraints"
        /\ \/ made.permitted_subtrees = None /\ made.excluded_subtrees = None
           \/ made.permitted_subtrees = PyList(<<>>)
           \/ made.excluded_subtrees = PyList(<<>>)) =>
           /\ obj = None
           /\ call = made => outcome.kind = "raise"

\* a good permitted_subtrees and an empty excluded_subtrees: ValueError
C16_Witness ==
    /\ call.op = "NameConstraints"
    /\ call.permitted_subtrees = PyList(<<GeneralName("DNSName", PyStr("a.example"))>>)
    /\ call.excluded_subtrees = PyList(<<>>)
    /\ outcome = Raise("ValueError")
    /\ obj = None

\* the subtree holds an IPAddress whose value is a bare address
HasBareAddress(t) ==
    /\ t # None
    /\ \E k \in 1..Len(t.items) :
           /\ t.items[k].type = "IPAddress"
           /\ t.items[k]._value.type \notin {"IPv4Network", "IPv6Network"}

\* the subtree is None or a non-empty list of general names
IsWellFormedSubtree(t) ==
    t # None => Len(t.items) > 0 /\ AllInstances(t.items, "GeneralName")

\* C17: NameConstraints() fails when an IPAddress in permitted_subtrees or in
\* excluded_subtrees carries a bare address, at any position of either list;
\* with every IPAddress carrying a network (and the subtrees otherwise well
\* formed) it succeeds; no constructed NameConstraints holds a bare-address
\* IPAddress in either subtree.
C17_IPAddressCarriesNetwork ==
    /\ (/\ made.op = "NameConstraints"
        /\ HasBareAddress(made.permitted_subtrees) \/ HasBareAddress(made.excluded_subtrees)) =>
           /\ obj = None
           /\ call = made => outcome.kind = "raise"
    /\ (/\ made.op = "NameConstraints"
        /\ IsWellFormedSubtree(made.permitted_subtrees)
        /\ IsWellFormedSubtree(made.excluded_subtrees)
        /\ made.permitted_subtrees # None \/ made.excluded_subtrees # None
        /\ ~HasBareAddress(made.permitted_subtrees)
        /\ ~HasBareAddress(made.excluded_subtrees)) =>
           /\ obj.type = "NameConstraints"
           /\ obj._permitted_subtrees = made.permitted_subtrees
           /\ obj._excluded_subtrees = made.excluded_subtrees
    /\ obj.type = "NameConstraints" =>
           /\ ~HasBareAddress(obj._permitted_subtrees)
           /\ ~HasBareAddress(obj._excluded_subtrees)

\* a bare address second in excluded_subtrees, after a network: TypeError
C17_Witness ==
    /\ call.op = "NameConstraints"
    /\ call.permitted_subtrees = None
    /\ call.excluded_subtrees.type = "list"
    /\ Len(call.excluded_subtrees.items) = 2
    /\ call.excluded_subtrees.items[1] =
           GeneralName("IPAddress", [type |-> "IPv4Network", val |-> "10.0.0.0/8"])
    /\ call.excluded_subtrees.items[2] =
           GeneralName("IPAddress", [type |-> "IPv4Address", val |-> "10.0.0.1"])
    /\ outcome = Raise("TypeError")
    /\ obj = None

(***************************************************************************)
(* Properties of AuthorityKeyIdentifier, PolicyConstraints and TLSFeature. *)
(***************************************************************************)
\* C18: a constructed AuthorityKeyIdentifier has authority_cert_issuer and
\* authority_cert_serial_number both present or both absent; construction
\* with exactly one of them present fails, whatever key_identifier is.
C18_IssuerAndSerialTogether ==
    /\ obj.type = "AuthorityKeyIdentifier" =>
           (obj._authority_cert_issuer = None) = (obj._authority_cert_serial_number = None)
    /\ (/\ made.op = "AuthorityKeyIdentifier"
        /\ (made.authority_cert_issuer = None) # (made.authority_cert_serial_number = None)) =>
           /\ obj = None
           /\ call = made => outcome = Raise("ValueError")

\* an empty issuer list, present, with no serial number, beside a
\* key_identifier: ValueError
C18_Witness ==
    /\ call.op = "AuthorityKeyIdentifier"
    /\ call.key_identifier # None
    /\ call.authority_cert_issuer = PyList(<<>>)
    /\ call.authority_cert_serial_number = None
    /\ outcome = Raise("ValueError")
    /\ obj = None

C20_FeaturesFromEnumeration ==
    /\ obj.type = "TLSFeature" =>
           /\ Len(obj._features.items) > 0
           /\ \A k \in 1..Len(obj._features.items) :
                  /\ obj._features.items[k] \in TLSFeatureType
                  /\ obj._features.items[k].value \in {5, 17}
    /\ (/\ made.op = "TLSFeature"
        /\ \/ Len(made.features.items) = 0
           \/ \E k \in 1..Len(made.features.items) :
                  made.features.items[k] \notin TLSFeatureType) =>
           /\ obj = None
           /\ call = made => outcome = Raise("TypeError")

\* a member followed by the int 5, which is no member: TypeError
C20_Witness ==
    /\ call.op = "TLSFeature"
    /\ Len(call.features.items) = 2
    /\ call.features.items[1] \in TLSFeatureType
    /\ call.features.items[2] = PyInt(5)
    /\ outcome = Raise("TypeError")
    /\ obj = None

(***************************************************************************)
(* Properties of equality and hashing.                                     *)
(***************************************************************************)
\* C21: for every constructed value a of a variant hash(a) is defined, and
\* for all equal values a, b of the variant hash(a) = hash(b), values with
\* list-valued fields such as an IssuingDistributionPoint or a
\* DistributionPoint made with a full_name included.
C21_HashDefinedAndConsistent ==
    /\ call.op = "__hash__" => outcome.kind = "return"
    /\ (call.op = "__eq__" /\ outcome = Return(PyBool(TRUE))) =>
           /\ hash(obj).kind = "return"
           /\ hash(obj) = hash(call.other)

\* the fields of a DistributionPoint or IssuingDistributionPoint other than
\* its reason set
FieldsBesideReasons(o) ==
    IF o.type = "DistributionPoint"
    THEN <<o._full_name, o._relative_name, o._crl_issuer>>
    ELSE <<o._full_name, o._relative_name, o._only_contains_user_certs,
           o._only_contains_ca_certs, o._indirect_crl,
           o._only_contains_attribute_certs>>

ReasonSetOf(o) ==
    IF o.type = "DistributionPoint" THEN o._reasons ELSE o._only_some_reasons

\* the eight sequence-valued extensions
SequenceValued == SequenceClasses \ {"Extensions"}

\* the list of children a sequence-valued extension holds
Children(o) == o[SequenceFieldName(o.type)].items

\* C22: two sequence-valued extensions of the same variant are equal exactly
\* when their child lists are equal item by item in the same order, so that a
\* permutation of distinct children is unequal; two DistributionPoint or
\* IssuingDistributionPoint values whose reason sets hold the same flags and
\* whose other fields agree are equal, in whatever order the flags were given.
C22_OrderedListsUnorderedSets ==
    /\ (/\ call.op = "__eq__"
        /\ obj.type \in SequenceValued
        /\ call.other.type = obj.type) =>
           (outcome = Return(PyBool(TRUE))) = (Children(obj) = Children(call.other))
    /\ (/\ call.op = "__eq__"
        /\ obj.type \in {"DistributionPoint", "IssuingDistributionPoint"}
        /\ call.other.type = obj.type
        /\ FieldsBesideReasons(call.other) = FieldsBesideReasons(obj)
        /\ ReasonSetOf(obj).type = "frozenset"
        /\ ReasonSetOf(call.other).type = "frozenset"
        /\ \A f \in ReasonFlags : f \in ReasonSetOf(obj).items <=> f \in ReasonSetOf(call.other).items) =>
           outcome = Return(PyBool(TRUE))

\* CRLDistributionPoints of two distinct points against the same two points
\* in the other order: not equal
C22_Witness ==
    /\ call.op = "__eq__"
    /\ obj.type = "CRLDistributionPoints"
    /\ call.other.type = "CRLDistributionPoints"
    /\ Len(Children(obj)) = 2
    /\ Children(obj)[1] # Children(obj)[2]
    /\ Children(call.other) = <<Children(obj)[2], Children(obj)[1]>>
    /\ outcome = Return(PyBool(FALSE))

(***************************************************************************)
(* Properties of the sequence-valued extensions.                           *)
(***************************************************************************)
\* the class the items of a sequence-valued extension must be of
ElementClass(class) ==
    CASE class \in {"AuthorityInformationAccess", "SubjectInformationAccess"} -> "AccessDescription"
      [] class \in {"CRLDistributionPoints", "FreshestCRL"} -> "DistributionPoint"
      [] class = "CertificatePolicies" -> "PolicyInformation"
      [] class = "ExtendedKeyUsage" -> "ObjectIdentifier"
      [] class \in {"PrecertificateSignedCertificateTimestamps",
                    "SignedCertificateTimestamps"} -> "SignedCertificateTimestamp"

\* the items of the sequence a constructor call of a sequence-valued
\* extension was given
Supplied(c) ==
    CASE c.op \in {"AuthorityInformationAccess", "SubjectInformationAccess"} -> c.descriptions.items
      [] c.op \in {"CRLDistributionPoints", "FreshestCRL"} -> c.distribution_points.items
      [] c.op = "CertificatePolicies" -> c.policies.items
      [] c.op = "ExtendedKeyUsage" -> c.usages.items
      [] c.op \in {"PrecertificateSignedCertificateTimestamps",
                   "SignedCertificateTimestamps"} -> c.signed_certificate_timestamps.items

\* C28: the constructor of each of the eight sequence-valued extensions fails
\* with TypeError when an item, at any position, is not of the declared
\* element class; otherwise it yields a value whose length, iteration order
\* and indexed items are those of the sequence given, the empty one included.
C28_SequenceValuedExtensions ==
    made.op \in SequenceValued =>
        IF \E k \in 1..Len(Supplied(made)) : Supplied(made)[k].type # ElementClass(made.op)
        THEN /\ obj = None
             /\ call = made => outcome = Raise("TypeError")
        ELSE /\ obj.type = made.op
             /\ call.op = "__len__" => outcome = Return(PyInt(Len(Supplied(made))))
             /\ call.op = "__iter__" => outcome = Return(PyList(Supplied(made)))
             /\ (call.op = "__getitem__" /\ call.idx.val \in 0..(Len(Supplied(made)) - 1)) =>
                    outcome = ReturnItem(Supplied(made)[call.idx.val + 1], call.idx.val + 1)

\* ExtendedKeyUsage([oid, str]): the second item is no ObjectIdentifier
C28_Witness ==
    /\ call.op = "ExtendedKeyUsage"
    /\ Len(call.usages.items) = 2
    /\ call.usages.items[1].type = "ObjectIdentifier"
    /\ call.usages.items[2].type = "str"
    /\ outcome = Raise("TypeError")
    /\ obj = None

(***************************************************************************)
(* Properties of the errors the constructors raise.                        *)
(***************************************************************************)
\* x is None or a list whose items are all of the class
NoneOrListOf(x, class) == x = None \/ (x.type = "list" /\ AllInstances(x.items, class))

\* x is None or a frozenset of ReasonFlags
NoneOrReasons(x) ==
    x = None \/ (x.type = "frozenset" /\ \A f \in x.items : isinstance(f, "ReasonFlags"))

\* every argument of the constructor call is of the kind its parameter declares
WellTyped(c) ==
    CASE c.op = "BasicConstraints" ->
            /\ isinstance(c.ca, "bool")
            /\ c.path_length = None \/ isinstance(c.path_length, "int")
      [] c.op = "KeyUsage" -> \A k \in 1..9 : isinstance(c.args[k], "bool")
      [] c.op = "DistributionPoint" ->
            /\ NoneOrListOf(c.full_name, "GeneralName")
            /\ c.relative_name = None \/ isinstance(c.relative_name, "RelativeDistinguishedName")
            /\ NoneOrReasons(c.reasons)
            /\ NoneOrListOf(c.crl_issuer, "GeneralName")
      [] c.op = "IssuingDistributionPoint" ->
            /\ NoneOrListOf(c.full_name, "GeneralName")
            /\ c.relative_name = None \/ isinstance(c.relative_name, "RelativeDistinguishedName")
            /\ NoneOrReasons(c.only_some_reasons)
            /\ \A b \in {c.only_contains_user_certs, c.only_contains_ca_certs,
                         c.indirect_crl, c.only_contains_attribute_certs} : isinstance(b, "bool")
      [] c.op = "NameConstraints" ->
            /\ NoneOrListOf(c.permitted_subtrees, "GeneralName")
            /\ NoneOrListOf(c.excluded_subtrees, "GeneralName")
      [] c.op = "AuthorityKeyIdentifier" ->
            /\ c.key_identifier = None \/ c.key_identifier.type = "bytes"
            /\ NoneOrListOf(c.authority_cert_issuer, "GeneralName")
            /\ c.authority_cert_serial_number = None \/ isinstance(c.authority_cert_serial_number, "int")
      [] c.op = "PolicyConstraints" ->
            \A a \in {c.require_explicit_policy, c.inhibit_policy_mapping} :
                a = None \/ isinstance(a, "int")
      [] c.op = "TLSFeature" -> AllInstances(c.features.items, "TLSFeatureType")
      [] c.op \in SequenceValued ->
            \A k \in 1..Len(Supplied(c)) : isinstance(Supplied(c)[k], ElementClass(c.op))
      [] OTHER -> FALSE

\* C23: a constructor that fails reports the kind that matches the cause: a
\* TypeError only when a value of the wrong kind was given, a ValueError
\* whenever the values are well typed but break an invariant (a negative
\* path_length with ca true, an empty TLSFeature list, a bare-address
\* IPAddress in NameConstraints, path_length set while ca is false, both
\* PolicyConstraints fields absent).
C23_ErrorKindMatchesCause ==
    (/\ call = made
     /\ outcome.kind = "raise"
     /\ WellTyped(made)) =>
        outcome.exc = "ValueError"

(***************************************************************************)
(* Properties of serialization.                                            *)
(***************************************************************************)
\* C24: public_bytes() of an UnrecognizedExtension built from identifier o and
\* bytes v returns exactly v, not an answer of the codec, and its oid returns
\* o; public_bytes() of a value of any other extension class returns what the
\* codec returns for that value.
C24_UnrecognizedPassThrough ==
    /\ (made.op = "UnrecognizedExtension" /\ call.op = "public_bytes") =>
           /\ outcome = Return(made.value)
           /\ outcome # Return(encode_extension_value(obj))
    /\ (made.op = "UnrecognizedExtension" /\ call.op = "oid") =>
           outcome = Return(made.oid)
    /\ (call.op = "public_bytes" /\ obj.type # "UnrecognizedExtension") =>
           outcome = Return(encode_extension_value(obj))

C24_Witness ==
    /\ made.op = "UnrecognizedExtension"
    /\ made.value = PyBytes("0500")
    /\ call.op = "public_bytes"
    /\ outcome = Return(PyBytes("0500"))

(***************************************************************************)
(* Properties of the wrapper and the container.                            *)
(***************************************************************************)
\* the wrapper's identifier is the one its value declares
OidMatchesValue(ext) == ext._oid = ext._value.oid

\* C25, as claimed: every wrapper Extension() builds, and every wrapper an
\* Extensions container holds, has the identifier its value's class declares
\* (ext.oid == ext.value.oid).
C25_WrapperOidMatchesValue ==
    /\ obj.type = "Extension" => OidMatchesValue(obj)
    /\ obj.type = "Extensions" =>
           \A i \in 1..Len(obj._extensions) : OidMatchesValue(obj._extensions[i])

\* C25, amended: Extension() keeps the identifier and the value it is given
\* and does not compare them, and Extensions() keeps the wrappers it is given,
\* so a wrapper's identifier is the one its value declares exactly when its
\* caller passed that identifier.
C25_WrapperKeepsGivenOid ==
    /\ (made.op = "Extension" /\ obj.type = "Extension") =>
           /\ obj._oid = made.oid
           /\ obj._value = made.value
           /\ OidMatchesValue(obj) <=> made.oid = made.value.oid
    /\ (made.op = "Extension" /\ isinstance(made.oid, "ObjectIdentifier")
            /\ isinstance(made.critical, "bool")) => obj.type = "Extension"
    /\ obj.type = "Extensions" =>
           \A i \in 1..Len(obj._extensions) :
               /\ obj._extensions[i] = made.extensions[i]
               /\ OidMatchesValue(obj._extensions[i])
                      <=> made.extensions[i]._oid = made.extensions[i]._value.oid

C25_Witness ==
    /\ made.op = "Extension"
    /\ obj.type = "Extension"
    /\ made.oid = OID_KEY_USAGE
    /\ made.value.type = "BasicConstraints"
    /\ ~OidMatchesValue(obj)

KindEncoding(k) ==
    CASE k.type = "RSAPublicKey" -> PublicKey_public_bytes(k, "DER", "PKCS1")
      [] k.type = "EllipticCurvePublicKey" ->
            PublicKey_public_bytes(k, "X962", "UncompressedPoint")
      [] OTHER ->
            parse_spki_for_data(PublicKey_public_bytes(k, "DER", "SubjectPublicKeyInfo"))

\* C27: SubjectKeyIdentifier.from_public_key(k) equals SubjectKeyIdentifier(d)
\* for d the SHA-1 digest of the encoding k's kind calls for, and
\* AuthorityKeyIdentifier.from_issuer_subject_key_identifier of that
\* SubjectKeyIdentifier equals AuthorityKeyIdentifier.from_issuer_public_key(k),
\* both without authority_cert_issuer and authority_cert_serial_number.
C27_KeyIdentifierRoundTrip ==
    /\ made.op = "SubjectKeyIdentifier.from_public_key" =>
           /\ obj.type = "SubjectKeyIdentifier"
           /\ PyEq(obj, SubjectKeyIdentifier_init(sha1_digest(KindEncoding(made.public_key))).value)
           /\ PyEq(SubjectKeyIdentifier_init(sha1_digest(KindEncoding(made.public_key))).value, obj)
    /\ made.op = "AuthorityKeyIdentifier.from_issuer_public_key" =>
           /\ obj.type = "AuthorityKeyIdentifier"
           /\ obj._authority_cert_issuer = None
           /\ obj._authority_cert_serial_number = None
           /\ obj._key_identifier = sha1_digest(KindEncoding(made.public_key))
           /\ PyEq(AuthorityKeyIdentifier_from_issuer_subject_key_identifier(
                       SubjectKeyIdentifier_from_public_key(made.public_key).value).value,
                   obj)
    /\ made.op = "AuthorityKeyIdentifier.from_issuer_subject_key_identifier" =>
           /\ obj.type = "AuthorityKeyIdentifier"
           /\ obj._authority_cert_issuer = None
           /\ obj._authority_cert_serial_number = None
           /\ obj._key_identifier = made.ski._digest
           /\ \A k \in PublicKeys :
                  PyEq(made.ski, SubjectKeyIdentifier_from_public_key(k).value)
                      => PyEq(obj, AuthorityKeyIdentifier_from_issuer_public_key(k).value)

C27_Witness ==
    /\ made.op = "AuthorityKeyIdentifier.from_issuer_subject_key_identifier"
    /\ made.ski = SubjectKeyIdentifier_from_public_key(PublicKey("EllipticCurvePublicKey", "k1")).value
    /\ PyEq(obj, AuthorityKeyIdentifier_from_issuer_public_key(PublicKey("EllipticCurvePublicKey", "k1")).value)
    /\ ~PyEq(obj, AuthorityKeyIdentifier_from_issuer_public_key(PublicKey("EllipticCurvePublicKey", "k2")).value)

(***************************************************************************)
(* Properties of equality across the extension classes.                    *)
(***************************************************************************)
\* C29: == on extension values is reflexive and symmetric, and a value never
\* equals a value of another class, also when both hold the same payload:
\* a number (CRLNumber, DeltaCRLIndicator, InhibitAnyPolicy), a list of
\* distribution points (CRLDistributionPoints, FreshestCRL), general names
\* (SubjectAlternativeName, IssuerAlternativeName, CertificateIssuer) or
\* nothing (OCSPNoCheck, PrecertPoison).
C29_EqualityWithinVariant ==
    (call.op = "__eq__" /\ obj.type \in ExtensionTypes) =>
        /\ PyEq(obj, obj)
        /\ call.other = obj => outcome = Return(PyBool(TRUE))
        /\ outcome = Return(PyBool(PyEq(call.other, obj)))
        /\ call.other.type # obj.type => outcome = Return(PyBool(FALSE))

C29_Witness ==
    /\ call.op = "__eq__"
    /\ obj = CRLNumber_init(PyInt(1)).value
    /\ call.other = DeltaCRLIndicator_init(PyInt(1)).value
    /\ outcome = Return(PyBool(FALSE))

(***************************************************************************)
(* Properties of the two lookups taken together.                           *)
(***************************************************************************)
\* every wrapper of the container has the identifier its value declares, and
\* no value is an UnrecognizedExtension
CatalogueContainer(self) ==
    \A i \in 1..Len(self._extensions) :
        /\ OidMatchesValue(self._extensions[i])
        /\ self._extensions[i]._value.type # "UnrecognizedExtension"

\* C30: on a container whose wrappers all have the identifier their value
\* declares and hold no UnrecognizedExtension, get_extension_for_class(C) and
\* get_extension_for_oid(C.oid) end alike for every catalogue class C other
\* than UnrecognizedExtension: the same wrapper at the same index, or
\* ExtensionNotFound carrying C.oid.
C30_ClassLookupIsOidLookup ==
    (obj.type = "Extensions" /\ CatalogueContainer(obj)) =>
        /\ (call.op = "get_extension_for_class" /\ call.extclass # "UnrecognizedExtension") =>
               /\ outcome = get_extension_for_oid(obj, ClassOid(call.extclass))
               /\ outcome.kind = "raise" => outcome = ExtensionNotFound(ClassOid(call.extclass))
        /\ call.op = "get_extension_for_oid" =>
               \A C \in ExtensionClasses \ {"UnrecognizedExtension"} :
                   call.oid = ClassOid(C) => outcome = get_extension_for_class(obj, C)

C30_Witness ==
    /\ obj.type = "Extensions"
    /\ CatalogueContainer(obj)
    /\ Len(obj._extensions) = 2
    /\ obj._extensions[1]._value.type = "BasicConstraints"
    /\ obj._extensions[2]._value.type = "BasicConstraints"
    /\ obj._extensions[1] # obj._extensions[2]
    /\ call = [op |-> "get_extension_for_class", extclass |-> "BasicConstraints"]
    /\ outcome = ReturnItem(obj._extensions[1], 1)

====
